---- MODULE Spec2Model ----
(***************************************************************************)
(* A model of the pdf-viewer-pdfjs bridge.                                 *)
(*                                                                         *)
(*   SpecBridge    web/PDFjs2RNBridge.mjs from the moment the script runs: *)
(*                 initializeBridge's three strategies, setupOverrides,    *)
(*                 the load handler's `ready`.                             *)
(*   SpecWrappers  the same module once its timers have run: the save and  *)
(*                 print wrappers, their extraction, transmission and      *)
(*                 fallback.                                               *)
(*   SpecInjected  the host component's WebView (PDFViewer.jsx): onLoadEnd,*)
(*                 the switch of its source, and the script it injects     *)
(*                 (setupPDFControls, app.download, app.print).            *)
(*                 SpecInjectedFair adds that loads complete, the          *)
(*                 renderer initializes and timers fire.                   *)
(*   SpecHost      receivedFromWebView, the host's message handler, fed    *)
(*                 well-formed and malformed messages.                     *)
(*   SpecActions   the same handler fed the save, print and share          *)
(*                 envelopes, several of them in flight at once.           *)
(*   SpecFocus     the host screen's focus effect (back press, blur,       *)
(*                 unmount) next to the handler of the PDF actions.        *)
(*   SpecWeb       index.js: overlapping loads and renderPDF.              *)
(*   SpecPicker    index.js: the file input's change handler, the          *)
(*                 FileReader callbacks and the status message.            *)
(*   SpecCodec     the envelope and the base64 payload, end to end.        *)
(*   SpecSend      sendToReactNative on its own, per channel arrangement.  *)
(*                                                                         *)
(* The page's environment (the global PDFViewerApplication, the boundary   *)
(* channels, the loaded document) is not owned by the module: the module   *)
(* re-reads it from `window` at every call, so the environment actions     *)
(* below may change it between any two tasks of the event loop.            *)
(***************************************************************************)
EXTENDS Integers, Sequences, FiniteSets, Bags, TLC

(***************************************************************************)
(* Bounds of the model.                                                    *)
(***************************************************************************)
\* wrapper invocations in flight at once (clicks, entry point calls, re-entries)
MaxCalls == 2
\* host handler invocations and cleanup timers pending at once
MaxHandlers == 2
\* the same, while the host is fed every kind of raw message
MaxInFlight == 1
\* load requests of the standalone page, in all and unsettled at once
MaxRequests == 3
MaxLoads == 2
\* the last value of the host's clock
MaxNow == 1
\* runs of the injected setupPDFControls that find no viewer, per page
MaxInjAttempts == 22
\* characters in a payload string of an envelope that is serialized
MaxPayload == 2
\* the length of a short buffer that is encoded, and the full chunks of a long one
MaxShort == 4
MaxChunks == 1

(***************************************************************************)
(* Program constants.                                                      *)
(***************************************************************************)
\* const maxAttempts = 20;
maxAttempts == 20
\* const chunkSize = 0x8000;
chunkSize == 32768

(***************************************************************************)
(* Documents the renderer may hold.  A document is known to the module     *)
(* only through app.pdfDocument (its extraction methods and bytes),        *)
(* app.url and app.pdfDocumentProperties.title.                            *)
(***************************************************************************)
NoDoc == "none"
Docs == {"d1", "d2", "d3", "d4"}

\* the bytes the document's extraction method resolves with
DocBytes(d) ==
    CASE d = "d1" -> <<37, 80, 68, 70>>
      [] d = "d2" -> <<255, 0>>
      [] d = "d3" -> <<7>>
      [] OTHER    -> <<>>

\* the extraction methods the pdfDocument object offers
DocApi(d) ==
    CASE d = "d1" -> {"saveDocument", "getData"}
      [] d = "d2" -> {"getData"}
      [] d = "d3" -> {"transport"}
      [] OTHER    -> {}

\* app.url, already split at '/' ; <<>> is the empty string
DocUrl(d) ==
    CASE d = "d1" -> <<"https:", "", "host", "report.pdf">>
      [] d = "d2" -> <<"https:", "", "host", "view">>
      [] OTHER    -> <<>>

\* app.pdfDocumentProperties.title ; "" when there is none
DocTitle(d) ==
    CASE d = "d2" -> "Invoice"
      [] OTHER    -> ""

\* urlFilename.includes('.pdf')
IncludesPdf(segment) == segment \in {"report.pdf", "document.pdf"}

VARIABLES
    PDFViewerApplication,   \* window.PDFViewerApplication
    ReactNativeWebView,     \* window.ReactNativeWebView.postMessage is a function
    parentPostMessage,      \* window.parent && window.parent.postMessage
    listeners,              \* capturing click listeners attached per button
    strategy1,              \* webviewerloaded listener and its 100 ms timer
    strategy2,              \* DOMContentLoaded / already-loaded timer and retry
    pollInterval,           \* the polling interval: [active, attempts, gaveUp]
    loadTimer,              \* window load handler and its 1000 ms timer
    calls,                  \* wrapper invocations in flight, in order of invocation
    finished,               \* the wrapper invocation the last step completed, if any
    posted,                 \* the envelopes the last step handed to a channel
    \* the host component's WebView and the script it injects
    scannedValue,           \* route.params.scannedValue is set
    pdfSent,                \* useState(false)
    pdfUrl,                 \* the WebView's source
    loadEnd,                \* an onLoadEnd event is due
    page,                   \* the page the WebView shows, and the injected script in it
    injCalls,               \* invocations of the injected app.download / app.print in flight
    \* the host component's message handler
    received,               \* the raw message the last step delivered to onMessage, if any
    effects,                \* what the last step did: console and Alert calls, native calls
    handlers,               \* receivedFromWebView invocations suspended at an await (a bag)
    files,                  \* the file system: path -> bytes
    cleanup,                \* pending 5000 ms timers, each the path to unlink (a bag)
    now,                    \* Date.now()
    failedBefore,           \* some command's file write or native call has failed
    \* the host screen's focus effect
    screen,                 \* [mounted, focused] of the PDFViewer screen
    sentToWebView,          \* the last message the host posted to the WebView, if any
    \* the standalone viewer page (index.js)
    requested,              \* how many loads were requested so far
    loads,                  \* pdfjsLib.getDocument(...) promises not yet settled
    pageTasks,              \* pdf.getPage(pageNum) promises not yet settled
    viewer,                 \* the canvases in #pdf-viewer, in document order
    rendered,               \* the requests renderPDF ran for
    alerted,                \* the alert() the last step raised, if any
    \* the file-selection page (index.js, the pdfFileInput change handler)
    pdfViewer,              \* let pdfViewer = null: 0, or the number of the instance
    created,                \* how many EventBus, PDFLinkService, PDFViewer objects were made
    fileLoads,              \* the loads in flight, each at its FileReader or at a promise
    selected,               \* how many PDF files were selected so far
    messageArea,            \* the status message: [text, type]
    setDocumentCalls,       \* the instances pdfViewer.setDocument was called on, in order
    \* a value on its way through a conversion and back
    codec                   \* [kind, stage, input, wire, output]

bridgeVars == <<PDFViewerApplication, ReactNativeWebView, parentPostMessage,
                listeners, strategy1, strategy2, pollInterval, loadTimer, calls>>

obsVars == <<finished, posted>>

injVars == <<scannedValue, pdfSent, pdfUrl, loadEnd, page, injCalls>>

hostVars == <<received, effects, handlers, files, cleanup, now, failedBefore>>
focusVars == <<screen, sentToWebView>>
webVars == <<requested, loads, pageTasks, viewer, rendered, alerted>>
pickerVars == <<pdfViewer, created, fileLoads, selected, messageArea, setDocumentCalls>>
codecVars == <<codec>>
vars == <<bridgeVars, obsVars, injVars, hostVars, focusVars, webVars, pickerVars, codecVars>>

\* what an action of the override module leaves alone
outsideBridge == <<injVars, hostVars, focusVars, webVars, pickerVars, codecVars>>

\* what an action of the host's WebView and injected script leaves alone
outsideInjected == <<bridgeVars, hostVars, focusVars, webVars, pickerVars, codecVars>>

\* what an action of the host's message handler leaves alone
outsideHost == <<bridgeVars, obsVars, injVars, focusVars, webVars, pickerVars, codecVars>>

\* what an action of the standalone viewer page leaves alone
outsideWeb == <<bridgeVars, obsVars, injVars, hostVars, focusVars, pickerVars, codecVars>>

\* what a conversion leaves alone
outsideCodec == <<bridgeVars, obsVars, injVars, hostVars, focusVars, webVars, pickerVars>>

(***************************************************************************)
(* JavaScript strings are sequences of pieces, so that concatenation      *)
(* (title + '.pdf') is \o.                                                 *)
(***************************************************************************)
Str(s) == <<s>>
Min(a, b) == IF a < b THEN a ELSE b

(***************************************************************************)
(* uint8ArrayToBase64: String.fromCharCode over chunkSize slices, joined,  *)
(* then btoa.  A binary string is the sequence of its char codes.          *)
(***************************************************************************)
B64Alphabet ==
    <<"A","B","C","D","E","F","G","H","I","J","K","L","M","N","O","P",
      "Q","R","S","T","U","V","W","X","Y","Z","a","b","c","d","e","f",
      "g","h","i","j","k","l","m","n","o","p","q","r","s","t","u","v",
      "w","x","y","z","0","1","2","3","4","5","6","7","8","9","+","/">>

B64Char(sextet) == B64Alphabet[sextet + 1]

\* a function on 1..n, written out as the sequence of its values
Sequence(f) == f \o <<>>

\* btoa: every three char codes give four characters; the last group is padded
btoa(bin) ==
    LET n == Len(bin)
        code(i) == IF i <= n THEN bin[i] ELSE 0
    IN  Sequence([k \in 1..(4 * ((n + 2) \div 3)) |->
            LET g  == (k - 1) \div 4
                b1 == code(3 * g + 1)
                b2 == code(3 * g + 2)
                b3 == code(3 * g + 3)
            IN  CASE (k - 1) % 4 = 0 -> B64Char(b1 \div 4)
                  [] (k - 1) % 4 = 1 -> B64Char((b1 % 4) * 16 + b2 \div 16)
                  [] (k - 1) % 4 = 2 -> IF 3 * g + 2 > n THEN "="
                                        ELSE B64Char((b2 % 16) * 4 + b3 \div 64)
                  [] OTHER           -> IF 3 * g + 3 > n THEN "="
                                        ELSE B64Char(b3 % 64)])

\* for (let i = 0; i < uint8Array.length; i += chunkSize) chunks.push(...)
RECURSIVE Chunks(_, _)
Chunks(uint8Array, i) ==
    IF i >= Len(uint8Array) THEN <<>>
    ELSE <<SubSeq(uint8Array, i + 1, Min(i + chunkSize, Len(uint8Array)))>>
         \o Chunks(uint8Array, i + chunkSize)

\* chunks.join('')
RECURSIVE Join(_)
Join(chunks) ==
    IF chunks = <<>> THEN <<>> ELSE Head(chunks) \o Join(Tail(chunks))

\* an encoder that converts chunk by chunk and joins the texts
uint8ArrayToBase64PerChunk(uint8Array) ==
    LET chunks == Chunks(uint8Array, 0)
    IN  Join([k \in 1..Len(chunks) |-> btoa(chunks[k])])

uint8ArrayToBase64(uint8Array) == btoa(Join(Chunks(uint8Array, 0)))

\* the inverse of B64Char
B64Table ==
    [ch \in {B64Alphabet[k] : k \in 1..64} |->
        (CHOOSE k \in 1..64 : B64Alphabet[k] = ch) - 1]

\* atob(base64): padding is allowed at the end only; anything else that is
\* not in the alphabet makes it throw
atob(base64) ==
    LET len  == Len(base64)
        pad  == IF len >= 4 /\ len % 4 = 0 /\ base64[len] = "="
                THEN (IF base64[len - 1] = "=" THEN 2 ELSE 1)
                ELSE 0
        body == len - pad
        sx(i) == B64Table[base64[i]]
    IN  IF \/ body % 4 = 1
           \/ \E i \in 1..body : base64[i] \notin DOMAIN B64Table
        THEN [threw |-> TRUE, raw |-> <<>>]
        ELSE [threw |-> FALSE,
              raw   |-> Sequence([i \in 1..((body * 3) \div 4) |->
                           LET g == (i - 1) \div 3
                           IN  CASE (i - 1) % 3 = 0 ->
                                        sx(4 * g + 1) * 4 + sx(4 * g + 2) \div 16
                                 [] (i - 1) % 3 = 1 ->
                                        (sx(4 * g + 2) % 16) * 16 + sx(4 * g + 3) \div 4
                                 [] OTHER ->
                                        (sx(4 * g + 3) % 4) * 64 + sx(4 * g + 4)])]

\* new Uint8Array(raw.length); uint8Array[i] = raw.charCodeAt(i)
charCodes(raw) == Sequence([i \in 1..Len(raw) |-> raw[i] % 256])

(***************************************************************************)
(* JSON text is a sequence of tokens.  JSON.stringify writes an object's   *)
(* own fields in insertion order; JSON.parse accepts an object of          *)
(* string-valued fields, the literal null, or a bare string, and throws    *)
(* on anything else.                                                       *)
(***************************************************************************)
Punct(p) == [p |-> p, v |-> <<>>]
StrTok(s) == [p |-> "str", v |-> s]
FieldOrder == <<"command", "base64", "filename", "message">>

RECURSIVE StringifyFields(_, _, _)
StringifyFields(message, k, first) ==
    IF k > Len(FieldOrder) THEN <<>>
    ELSE IF FieldOrder[k] \in DOMAIN message THEN
        (IF first THEN <<>> ELSE <<Punct(",")>>)
        \o <<StrTok(Str(FieldOrder[k])), Punct(":"), StrTok(message[FieldOrder[k]])>>
        \o StringifyFields(message, k + 1, FALSE)
    ELSE StringifyFields(message, k + 1, first)

JSONstringify(message) ==
    <<Punct("{")>> \o StringifyFields(message, 1, TRUE) \o <<Punct("}")>>

IsStrTok(t) == t.p = "str"
IsKeyTok(t) == IsStrTok(t) /\ Len(t.v) = 1

\* the tokens between the braces are  key : value  groups separated by commas
WellFormedObject(raw) ==
    /\ Len(raw) >= 2
    /\ raw[1].p = "{"
    /\ raw[Len(raw)].p = "}"
    /\ \/ Len(raw) = 2
       \/ /\ (Len(raw) - 1) % 4 = 0
          /\ \A i \in 2..(Len(raw) - 1) :
                CASE (i - 2) % 4 = 0 -> IsKeyTok(raw[i])
                  [] (i - 2) % 4 = 1 -> raw[i].p = ":"
                  [] (i - 2) % 4 = 2 -> IsStrTok(raw[i])
                  [] OTHER           -> raw[i].p = ","

KeyPositions(raw) == {i \in 2..(Len(raw) - 1) : (i - 2) % 4 = 0}

\* a repeated key keeps its last value
ParsedObject(raw) ==
    [k \in {raw[i].v[1] : i \in KeyPositions(raw)} |->
        LET lastPos == CHOOSE i \in KeyPositions(raw) :
                       /\ raw[i].v[1] = k
                       /\ \A j \in KeyPositions(raw) : raw[j].v[1] = k => j <= i
        IN  raw[lastPos + 2].v]

JSONparse(raw) ==
    IF WellFormedObject(raw) THEN [threw |-> FALSE, kind |-> "object", value |-> ParsedObject(raw)]
    ELSE IF raw = <<Punct("null")>> THEN [threw |-> FALSE, kind |-> "null", value |-> <<>>]
    ELSE IF Len(raw) = 1 /\ IsStrTok(raw[1]) THEN [threw |-> FALSE, kind |-> "string", value |-> <<>>]
    ELSE [threw |-> TRUE, kind |-> "none", value |-> <<>>]

(***************************************************************************)
(* The text of a message: the characters JSON.stringify writes for the     *)
(* tokens and JSON.parse reads back.  Inside a string the quote, the       *)
(* backslash and the line feed are written as escapes.                     *)
(***************************************************************************)
\* a writer that copies the characters of a string as they are
EscapeNothing(ch) == <<ch>>

\* JSON.stringify's QuoteJSONString, per character
Escape(ch) ==
    CASE ch = "\"" -> <<"\\", "\"">>
      [] ch = "\\" -> <<"\\", "\\">>
      [] ch = "\n" -> <<"\\", "n">>
      [] OTHER     -> <<ch>>

RECURSIVE Quoted(_)
Quoted(str) ==
    IF str = <<>> THEN <<>> ELSE Escape(Head(str)) \o Quoted(Tail(str))

RECURSIVE Emit(_)
Emit(tokens) ==
    IF tokens = <<>> THEN <<>>
    ELSE (IF IsStrTok(Head(tokens))
          THEN <<"\"">> \o Quoted(Head(tokens).v) \o <<"\"">>
          ELSE <<Head(tokens).p>>)
         \o Emit(Tail(tokens))

\* JSON.stringify(message) as text
JSONstringifyText(message) == Emit(JSONstringify(message))

\* the character an escape stands for
Unescaped(code) == IF code = "n" THEN "\n" ELSE code

\* reads a string from the character after its opening quote
RECURSIVE ScanString(_, _)
ScanString(text, i) ==
    LET failed == [ok |-> FALSE, value |-> <<>>, next |-> i]
    IN  IF i > Len(text) THEN failed
        ELSE IF text[i] = "\"" THEN [ok |-> TRUE, value |-> <<>>, next |-> i + 1]
        ELSE IF text[i] = "\n" THEN failed
        ELSE IF text[i] = "\\" THEN
            IF i + 1 > Len(text) \/ text[i + 1] \notin {"\"", "\\", "n"} THEN failed
            ELSE LET rest == ScanString(text, i + 2)
                 IN  [ok    |-> rest.ok,
                      value |-> <<Unescaped(text[i + 1])>> \o rest.value,
                      next  |-> rest.next]
        ELSE LET rest == ScanString(text, i + 1)
             IN  [ok |-> rest.ok, value |-> <<text[i]>> \o rest.value, next |-> rest.next]

\* the tokens of a text, from character i on
RECURSIVE Lex(_, _)
Lex(text, i) ==
    IF i > Len(text) THEN [ok |-> TRUE, tokens |-> <<>>]
    ELSE IF text[i] \in {"{", "}", ":", ",", "null"} THEN
        LET rest == Lex(text, i + 1)
        IN  [ok |-> rest.ok, tokens |-> <<Punct(text[i])>> \o rest.tokens]
    ELSE IF text[i] = "\"" THEN
        LET str == ScanString(text, i + 1)
        IN  IF ~str.ok THEN [ok |-> FALSE, tokens |-> <<>>]
            ELSE LET rest == Lex(text, str.next)
                 IN  [ok |-> rest.ok, tokens |-> <<StrTok(str.value)>> \o rest.tokens]
    ELSE [ok |-> FALSE, tokens |-> <<>>]

\* JSON.parse(text)
JSONparseText(text) ==
    LET lexed == Lex(text, 1)
    IN  IF lexed.ok THEN JSONparse(lexed.tokens)
        ELSE [threw |-> TRUE, kind |-> "none", value |-> <<>>]

(***************************************************************************)
(* window.PDFViewerApplication                                             *)
(***************************************************************************)
AbsentApp ==
    [present |-> FALSE, initialized |-> FALSE, pdfDocument |-> NoDoc,
     download |-> "libDownload", print |-> "libPrint",
     originalDownload |-> "unset", originalPrint |-> "unset"]

\* the library's own object, as the viewer script creates it
FreshApp == [AbsentApp EXCEPT !.present = TRUE]

Buttons == {"download", "print", "secondaryDownload", "secondaryPrint"}

\* the toolbar elements getElementById finds in the page
domButtons == {"download", "print", "secondaryDownload"}

\* the wrapper a button's listener calls
ListenerWrapper(b) ==
    IF b \in {"download", "secondaryDownload"} THEN "overrideDownload"
    ELSE "overridePrint"

IsFunction(f) == f \in {"libDownload", "libPrint", "overrideDownload", "overridePrint"}

\* window.ReactNativeWebView && typeof ...postMessage === 'function', else parent
Channel ==
    IF ReactNativeWebView THEN "rn"
    ELSE IF parentPostMessage THEN "parent"
    ELSE "none"

\* the renderer is there and initialized
AppReady == PDFViewerApplication.present /\ PDFViewerApplication.initialized

(***************************************************************************)
(* getFilename(), for a present application object                         *)
(***************************************************************************)
getFilename(app) ==
    LET url        == IF app.pdfDocument = NoDoc THEN <<>> ELSE DocUrl(app.pdfDocument)
        title      == IF app.pdfDocument = NoDoc THEN "" ELSE DocTitle(app.pdfDocument)
        fromUrl    == IF url # <<>> /\ IncludesPdf(url[Len(url)])
                      THEN Str(url[Len(url)])
                      ELSE Str("document.pdf")
    IN  IF title # "" THEN <<title, ".pdf">> ELSE fromUrl

\* the base64 text of each document's bytes, encoded once
Base64Table == [d \in Docs \cup {NoDoc} |-> uint8ArrayToBase64(DocBytes(d))]

\* the envelopes a wrapper can build, and their serialization, computed once
WrapperMessages ==
    {[command  |-> Str(c),
      base64   |-> Base64Table[d],
      filename |-> getFilename([pdfDocument |-> fd])] :
        c \in {"save", "print"}, d \in Docs \cup {NoDoc}, fd \in Docs \cup {NoDoc}}

StringifyTable == [m \in WrapperMessages |-> JSONstringify(m)]

\* JSON.stringify(message)
Serialized(message) ==
    IF message \in WrapperMessages THEN StringifyTable[message] ELSE JSONstringify(message)

(***************************************************************************)
(* sendToReactNative(message); `raises` is whether postMessage (or         *)
(* JSON.stringify) raises inside the try block.                            *)
(***************************************************************************)
\* the helper without its `return true`
sendToReactNativeReturnsFalse(message, raises) ==
    [via      |-> Channel,
     attempts |-> IF Channel = "none" THEN 0 ELSE 1,
     handed   |-> Channel # "none" /\ ~raises,
     returned |-> FALSE,
     threw    |-> FALSE,
     raw      |-> Serialized(message)]

\* the helper without its try / catch
sendToReactNativeUnguarded(message, raises) ==
    [via      |-> Channel,
     attempts |-> IF Channel = "none" THEN 0 ELSE 1,
     handed   |-> Channel # "none" /\ ~raises,
     returned |-> Channel # "none" /\ ~raises,
     threw    |-> Channel # "none" /\ raises,
     raw      |-> Serialized(message)]

sendToReactNative(message, raises) ==
    [via      |-> Channel,
     attempts |-> IF Channel = "none" THEN 0 ELSE 1,
     handed   |-> Channel # "none" /\ ~raises,   \* postMessage took the envelope
     returned |-> Channel # "none" /\ ~raises,   \* return true
     threw    |-> FALSE,                          \* the catch block swallows the error
     raw      |-> Serialized(message)]

\* an envelope as the observer of the channels records it
Posted(via, raw) == [via |-> via, raw |-> raw, appReady |-> AppReady]

(***************************************************************************)
(* getPDFDataAsBase64(), up to its first suspension: the guard and the     *)
(* choice of the extraction method.                                        *)
(***************************************************************************)
NoActiveDocument(app) == ~app.present \/ app.pdfDocument = NoDoc

ExtractionMethod(app) ==
    IF NoActiveDocument(app) THEN "noDocument"
    ELSE IF "saveDocument" \in DocApi(app.pdfDocument) THEN "saveDocument"
    ELSE IF "getData" \in DocApi(app.pdfDocument) THEN "getData"
    ELSE IF "transport" \in DocApi(app.pdfDocument) THEN "transport"
    ELSE "noMethod"

\* the strategies an extraction ran: the one branch of the if / else-if chain
Tried(method) ==
    IF method \in {"saveDocument", "getData", "transport"} THEN <<method>> ELSE <<>>

\* what the awaited extraction can settle with
Outcomes(method) ==
    CASE method \in {"saveDocument", "getData"} -> {"data", "invalid", "rejected"}
      [] method = "transport"                   -> {"data", "invalid"}
      [] OTHER                                  -> {method}

\* saveDocument/getData answer from the worker, in a later task; the other
\* paths settle at once and the wrapper continues in a microtask
Suspends(method) == method \in {"saveDocument", "getData"}

(***************************************************************************)
(* A wrapper invocation (overrideDownload / overridePrint).                *)
(***************************************************************************)
WrapperCommand(fn) == IF fn = "overrideDownload" THEN "save" ELSE "print"

StartCall(fn, by) ==
    [fn     |-> fn,
     by     |-> by,            \* "user": a click or an entry point call; "fallback": a re-entry
     pc     |-> IF Suspends(ExtractionMethod(PDFViewerApplication)) THEN "await" ELSE "micro",
     doc    |-> IF NoActiveDocument(PDFViewerApplication) THEN NoDoc
                ELSE PDFViewerApplication.pdfDocument,
     method |-> ExtractionMethod(PDFViewerApplication)]

NoCall ==
    [fn |-> "none", by |-> "user", doc |-> NoDoc, outcome |-> "none",
     channel |-> "none", attempts |-> 0, sent |-> "none", fnameDoc |-> NoDoc,
     fallback |-> "none", rejected |-> FALSE, tried |-> <<>>]

Microtask == \E i \in 1..Len(calls) : calls[i].pc = "micro"

RemoveAt(seq, i) == SubSeq(seq, 1, i - 1) \o SubSeq(seq, i + 1, Len(seq))

\* the saved original entry point of a wrapper
SavedOriginal(app, fn) ==
    IF fn = "overrideDownload" THEN app.originalDownload ELSE app.originalPrint

\* what `if (app.originalX) app.originalX.call(app)` does
FallbackOf(app, fn) ==
    IF ~app.present THEN "typeError"
    ELSE IF SavedOriginal(app, fn) = "unset" THEN "unset"
    ELSE IF SavedOriginal(app, fn) \in {"libDownload", "libPrint"} THEN "library"
    ELSE "wrapper"

\* the envelopes the wrapper's catch block sends: none, console.error only
ReportFailure(fn, outcome) == <<>>

\* the continuation of a wrapper after `await getPDFDataAsBase64()`
Continue(i, outcome, raises) ==
    LET c       == calls[i]
        app     == PDFViewerApplication
        \* getFilename() dereferences app: a TypeError the try block catches
        built   == outcome = "data" /\ app.present
        message == [command  |-> Str(WrapperCommand(c.fn)),
                    base64   |-> Base64Table[c.doc],
                    filename |-> getFilename(app)]
        send    == sendToReactNative(message, raises)
        done    == built /\ send.returned
        fb      == IF done THEN "none" ELSE FallbackOf(app, c.fn)
        rest    == RemoveAt(calls, i)
        report  == IF outcome = "data" THEN <<>> ELSE ReportFailure(c.fn, outcome)
    IN  /\ calls' = IF fb = "wrapper" THEN Append(rest, StartCall(c.fn, "fallback"))
                    ELSE rest
        /\ finished' = [fn       |-> c.fn,
                        by       |-> c.by,
                        doc      |-> c.doc,
                        outcome  |-> outcome,
                        channel  |-> Channel,
                        attempts |-> IF built THEN send.attempts ELSE 0,
                        sent     |-> IF done THEN WrapperCommand(c.fn) ELSE "none",
                        fnameDoc |-> IF built THEN app.pdfDocument ELSE NoDoc,
                        fallback |-> IF fb = "typeError" THEN "none" ELSE fb,
                        rejected |-> (fb = "typeError"),
                        tried    |-> Tried(c.method)]
        /\ posted' = [k \in 1..(IF Channel = "none" THEN 0 ELSE Len(report)) |->
                          Posted(Channel, JSONstringify(report[k]))]
                     \o (IF built /\ send.handed THEN <<Posted(send.via, send.raw)>> ELSE <<>>)

\* a settled extraction: the continuation runs before any other task
ResumeMicrotask(i) ==
    /\ i \in 1..Len(calls)
    /\ calls[i].pc = "micro"
    /\ \A j \in 1..(i - 1) : calls[j].pc # "micro"
    /\ \E outcome \in Outcomes(calls[i].method), raises \in BOOLEAN :
          Continue(i, outcome, raises)
    /\ UNCHANGED outsideBridge
    /\ UNCHANGED <<PDFViewerApplication, ReactNativeWebView, parentPostMessage,
                   listeners, strategy1, strategy2, pollInterval, loadTimer>>

\* saveDocument()/getData() settled
ResumeAwait(i) ==
    /\ ~Microtask
    /\ i \in 1..Len(calls)
    /\ calls[i].pc = "await"
    /\ \E outcome \in Outcomes(calls[i].method), raises \in BOOLEAN :
          Continue(i, outcome, raises)
    /\ UNCHANGED outsideBridge
    /\ UNCHANGED <<PDFViewerApplication, ReactNativeWebView, parentPostMessage,
                   listeners, strategy1, strategy2, pollInterval, loadTimer>>

\* the step completed no wrapper invocation and posted nothing
Quiet == finished' = NoCall /\ posted' = <<>>

(***************************************************************************)
(* setupOverrides() and setupToolbarOverrides()                            *)
(***************************************************************************)
\* the check of the application object alone
setupOverridesIgnoresChannels == PDFViewerApplication.present

\* the return value: false when the app or both channels are missing
setupOverridesReturns == PDFViewerApplication.present /\ Channel # "none"

\* app.originalDownload = app.download;  app.originalPrint = app.print;
StoreOriginal(current) == current

OverriddenApp(app) ==
    [app EXCEPT
       !.originalDownload = IF IsFunction(app.download)
                            THEN StoreOriginal(app.download) ELSE @,
       !.download         = IF IsFunction(app.download) THEN "overrideDownload" ELSE @,
       !.originalPrint    = IF IsFunction(app.print)
                            THEN StoreOriginal(app.print) ELSE @,
       !.print            = IF IsFunction(app.print) THEN "overridePrint" ELSE @]

\* one more capturing listener on every toolbar element that exists
setupToolbarOverrides(ls) ==
    [b \in Buttons |-> IF b \in domButtons THEN ls[b] + 1 ELSE ls[b]]

setupOverrides ==
    /\ PDFViewerApplication' =
          IF setupOverridesReturns THEN OverriddenApp(PDFViewerApplication)
          ELSE PDFViewerApplication
    /\ listeners' =
          IF setupOverridesReturns THEN setupToolbarOverrides(listeners)
          ELSE listeners

(***************************************************************************)
(* initializeBridge(): the three strategies, and the load handler          *)
(***************************************************************************)
\* document.addEventListener('webviewerloaded', ...)
WebViewerLoaded ==
    /\ strategy1 = "listening"
    /\ strategy1' = "timer"
    /\ Quiet
    /\ UNCHANGED outsideBridge
    /\ UNCHANGED <<PDFViewerApplication, ReactNativeWebView, parentPostMessage,
                   listeners, strategy2, pollInterval, loadTimer, calls>>

\* setTimeout(setupOverrides, 100)
Strategy1Timer ==
    /\ strategy1 = "timer"
    /\ setupOverrides
    /\ strategy1' = "done"
    /\ Quiet
    /\ UNCHANGED outsideBridge
    /\ UNCHANGED <<ReactNativeWebView, parentPostMessage,
                   strategy2, pollInterval, loadTimer, calls>>

\* the DOMContentLoaded listener of a document that was still loading
DOMContentLoaded ==
    /\ strategy2 = "loading"
    /\ strategy2' = "timer"
    /\ Quiet
    /\ UNCHANGED outsideBridge
    /\ UNCHANGED <<PDFViewerApplication, ReactNativeWebView, parentPostMessage,
                   listeners, strategy1, pollInterval, loadTimer, calls>>

\* setTimeout(() => { if (!setupOverrides()) setTimeout(setupOverrides, 1000) })
Strategy2Timer ==
    /\ strategy2 = "timer"
    /\ setupOverrides
    /\ strategy2' = IF setupOverridesReturns THEN "done" ELSE "retry"
    /\ Quiet
    /\ UNCHANGED outsideBridge
    /\ UNCHANGED <<ReactNativeWebView, parentPostMessage,
                   strategy1, pollInterval, loadTimer, calls>>

Strategy2Retry ==
    /\ strategy2 = "retry"
    /\ setupOverrides
    /\ strategy2' = "done"
    /\ Quiet
    /\ UNCHANGED outsideBridge
    /\ UNCHANGED <<ReactNativeWebView, parentPostMessage,
                   strategy1, pollInterval, loadTimer, calls>>

\* attempts > maxAttempts
PollExhausted(attempts) == attempts > maxAttempts

\* one tick of setInterval(..., 500).  `attempts` is never read after
\* clearInterval: the model forgets it then and keeps which branch cleared it.
PollTick ==
    /\ pollInterval.active
    /\ LET attempts == pollInterval.attempts + 1
       IN  IF PollExhausted(attempts) THEN
               /\ pollInterval' = [active |-> FALSE, attempts |-> 0, gaveUp |-> TRUE]
               /\ UNCHANGED <<PDFViewerApplication, listeners>>
           ELSE IF PDFViewerApplication.present /\ PDFViewerApplication.initialized THEN
               /\ pollInterval' = [active |-> FALSE, attempts |-> 0, gaveUp |-> FALSE]
               /\ setupOverrides
           ELSE
               /\ pollInterval' = [active |-> TRUE, attempts |-> attempts, gaveUp |-> FALSE]
               /\ UNCHANGED <<PDFViewerApplication, listeners>>
    /\ Quiet
    /\ UNCHANGED outsideBridge
    /\ UNCHANGED <<ReactNativeWebView, parentPostMessage,
                   strategy1, strategy2, loadTimer, calls>>

\* window.addEventListener('load', ...)
WindowLoad ==
    /\ loadTimer = "waiting"
    /\ loadTimer' = "timer"
    /\ Quiet
    /\ UNCHANGED outsideBridge
    /\ UNCHANGED <<PDFViewerApplication, ReactNativeWebView, parentPostMessage,
                   listeners, strategy1, strategy2, pollInterval, calls>>

\* what the load handler's timer checks before it sends `ready`: nothing
ReadyGuard == TRUE

\* setTimeout(() => sendToReactNative({ command: 'ready' }), 1000)
ReadyTimer ==
    /\ loadTimer = "timer"
    /\ loadTimer' = "done"
    /\ \E raises \in BOOLEAN :
          LET send == sendToReactNative([command |-> Str("ready")], raises)
          IN  posted' = IF ReadyGuard /\ send.returned
                        THEN <<Posted(send.via, send.raw)>>
                        ELSE <<>>
    /\ finished' = NoCall
    /\ UNCHANGED outsideBridge
    /\ UNCHANGED <<PDFViewerApplication, ReactNativeWebView, parentPostMessage,
                   listeners, strategy1, strategy2, pollInterval, calls>>

(***************************************************************************)
(* Invocations of the wrappers                                             *)
(***************************************************************************)
RECURSIVE StartCalls(_, _)
StartCalls(fn, n) ==
    IF n = 0 THEN <<>> ELSE <<StartCall(fn, "user")>> \o StartCalls(fn, n - 1)

\* a click on a toolbar element runs every capturing listener attached to it
Click(b) ==
    /\ ~Microtask
    /\ b \in domButtons
    /\ listeners[b] > 0
    /\ Len(calls) + listeners[b] <= MaxCalls
    /\ calls' = calls \o StartCalls(ListenerWrapper(b), listeners[b])
    /\ Quiet
    /\ UNCHANGED outsideBridge
    /\ UNCHANGED <<PDFViewerApplication, ReactNativeWebView, parentPostMessage,
                   listeners, strategy1, strategy2, pollInterval, loadTimer>>

\* app.download() / app.print() called while it is the wrapper
EntryPointCall(fn) ==
    /\ ~Microtask
    /\ PDFViewerApplication.present
    /\ fn = IF fn = "overrideDownload" THEN PDFViewerApplication.download
            ELSE PDFViewerApplication.print
    /\ Len(calls) < MaxCalls
    /\ calls' = Append(calls, StartCall(fn, "user"))
    /\ Quiet
    /\ UNCHANGED outsideBridge
    /\ UNCHANGED <<PDFViewerApplication, ReactNativeWebView, parentPostMessage,
                   listeners, strategy1, strategy2, pollInterval, loadTimer>>

(***************************************************************************)
(* The page around the module                                              *)
(***************************************************************************)
\* the viewer script defines window.PDFViewerApplication
AppAppears ==
    /\ ~Microtask
    /\ ~PDFViewerApplication.present
    /\ PDFViewerApplication' = FreshApp
    /\ Quiet
    /\ UNCHANGED outsideBridge
    /\ UNCHANGED <<ReactNativeWebView, parentPostMessage, listeners,
                   strategy1, strategy2, pollInterval, loadTimer, calls>>

AppInitialized ==
    /\ ~Microtask
    /\ PDFViewerApplication.present
    /\ ~PDFViewerApplication.initialized
    /\ PDFViewerApplication' = [PDFViewerApplication EXCEPT !.initialized = TRUE]
    /\ Quiet
    /\ UNCHANGED outsideBridge
    /\ UNCHANGED <<ReactNativeWebView, parentPostMessage, listeners,
                   strategy1, strategy2, pollInterval, loadTimer, calls>>

\* the renderer opens a document, or closes it (d = NoDoc)
DocumentChange(d) ==
    /\ ~Microtask
    /\ PDFViewerApplication.present
    /\ PDFViewerApplication.initialized
    /\ d # PDFViewerApplication.pdfDocument
    /\ PDFViewerApplication' = [PDFViewerApplication EXCEPT !.pdfDocument = d]
    /\ Quiet
    /\ UNCHANGED outsideBridge
    /\ UNCHANGED <<ReactNativeWebView, parentPostMessage, listeners,
                   strategy1, strategy2, pollInterval, loadTimer, calls>>

\* the global is unset: the viewer is torn down
AppTornDown ==
    /\ ~Microtask
    /\ PDFViewerApplication.present
    /\ PDFViewerApplication' = AbsentApp
    /\ Quiet
    /\ UNCHANGED outsideBridge
    /\ UNCHANGED <<ReactNativeWebView, parentPostMessage, listeners,
                   strategy1, strategy2, pollInterval, loadTimer, calls>>

\* <<ReactNativeWebView, parent>>: the host's WebView, a plain browser frame,
\* and a page cut off from both
Channels == {<<TRUE, TRUE>>, <<FALSE, TRUE>>, <<FALSE, FALSE>>}

\* a boundary channel appears or goes away
ChannelChange(rn, parent) ==
    /\ ~Microtask
    /\ <<rn, parent>> # <<ReactNativeWebView, parentPostMessage>>
    /\ ReactNativeWebView' = rn
    /\ parentPostMessage' = parent
    /\ Quiet
    /\ UNCHANGED outsideBridge
    /\ UNCHANGED <<PDFViewerApplication, listeners, strategy1,
                   strategy2, pollInterval, loadTimer, calls>>

(***************************************************************************)
(* The host component's WebView (PDFViewer.jsx) and its injectedJavaScript *)
(***************************************************************************)
\* a page as the WebView starts to load it
FreshPage(url) ==
    [url          |-> url,       \* "blank": viewer.html?file=  "document": ...?file=data:...
     loaded       |-> FALSE,
     renderer     |-> "absent",  \* absent | noBus | ready (PDFViewerApplication.eventBus)
     doc          |-> NoDoc,     \* app.pdfDocument
     timer        |-> FALSE,     \* a setTimeout(setupPDFControls, ...) is pending
     attempts     |-> 0,         \* runs of setupPDFControls that found no viewer
     controls     |-> FALSE,     \* app.download / app.print are the injected functions
     toolbarTimer |-> FALSE,     \* the 3000 ms timer of the toolbar overrides
     clickHandler |-> {}]        \* the buttons with the injected click handler

\* sendToRN(message): window.ReactNativeWebView is the WebView's own object
sendToRN(message) == [via |-> "rn", raw |-> JSONstringify(message)]

InjPosted(message) ==
    [via |-> "rn", raw |-> sendToRN(message).raw, appReady |-> page.renderer = "ready"]

Debug(text) == [command |-> Str("debug"), message |-> text]

\* the page has finished loading: the injected script runs, onLoadEnd is due
PageLoaded ==
    /\ ~page.loaded
    /\ page' = [page EXCEPT !.loaded = TRUE, !.timer = TRUE]
    /\ loadEnd' = TRUE
    /\ Quiet
    /\ UNCHANGED <<scannedValue, pdfSent, pdfUrl, injCalls>>
    /\ UNCHANGED outsideInjected

\* // Send PDF only once per mount
ShouldSend == scannedValue /\ ~pdfSent

\* the guard is left as it was
setPdfSentSkipped == pdfSent

\* setPdfSent(true) in the branch of the guard
setPdfSent == pdfSent \/ ShouldSend

\* onLoadEnd={() => { if (scannedValue && !pdfSent) { setPdfSent(true); setPdfUrl(viewerUrl) } }}
OnLoadEnd ==
    /\ loadEnd
    /\ loadEnd' = FALSE
    /\ pdfSent' = setPdfSent
    /\ pdfUrl' = IF ShouldSend THEN "document" ELSE pdfUrl
    /\ Quiet
    /\ UNCHANGED <<scannedValue, page, injCalls>>
    /\ UNCHANGED outsideInjected

\* the WebView follows its source prop: the old page and its timers are gone
Navigate ==
    /\ page.url # pdfUrl
    /\ page' = FreshPage(pdfUrl)
    /\ injCalls' = <<>>
    /\ loadEnd' = FALSE
    /\ Quiet
    /\ UNCHANGED <<scannedValue, pdfSent, pdfUrl>>
    /\ UNCHANGED outsideInjected

\* the viewer script defines window.PDFViewerApplication
RendererAppears ==
    /\ page.renderer = "absent"
    /\ page' = [page EXCEPT !.renderer = "noBus"]
    /\ Quiet
    /\ UNCHANGED <<scannedValue, pdfSent, pdfUrl, loadEnd, injCalls>>
    /\ UNCHANGED outsideInjected

\* the viewer initializes: PDFViewerApplication.eventBus exists
RendererInitialized ==
    /\ page.renderer = "noBus"
    /\ page' = [page EXCEPT !.renderer = "ready"]
    /\ Quiet
    /\ UNCHANGED <<scannedValue, pdfSent, pdfUrl, loadEnd, injCalls>>
    /\ UNCHANGED outsideInjected

\* the viewer opens the document of its file parameter
RendererOpens(d) ==
    /\ page.renderer = "ready"
    /\ page.url = "document"
    /\ page.doc = NoDoc
    /\ page' = [page EXCEPT !.doc = d]
    /\ Quiet
    /\ UNCHANGED <<scannedValue, pdfSent, pdfUrl, loadEnd, injCalls>>
    /\ UNCHANGED outsideInjected

\* if (window.PDFViewerApplication && window.PDFViewerApplication.eventBus)
ViewerReady(pg) == pg.renderer = "ready"

\* a script that checks for the viewer once and does not re-arm its timer
RetryNever(attempts) == FALSE

\* else { setTimeout(setupPDFControls, 1000) }: whether the retry is armed
RetryArmed(attempts) == TRUE

\* setupPDFControls(), run by its timer
SetupPDFControls ==
    /\ page.timer
    /\ ViewerReady(page) \/ page.attempts < MaxInjAttempts
    /\ IF ViewerReady(page) THEN
           /\ page' = [page EXCEPT !.timer = FALSE, !.controls = TRUE,
                                   !.toolbarTimer = TRUE]
           /\ posted' = <<InjPosted(Debug(Str("PDF.js viewer ready, setting up controls..."))),
                          InjPosted(Debug(Str("PDF controls configured"))),
                          InjPosted([command |-> Str("ready")])>>
       ELSE
           /\ page' = [page EXCEPT !.attempts = @ + 1,
                                   !.timer = RetryArmed(page.attempts + 1)]
           /\ posted' = <<>>
    /\ finished' = NoCall
    /\ UNCHANGED <<scannedValue, pdfSent, pdfUrl, loadEnd, injCalls>>
    /\ UNCHANGED outsideInjected

\* the buttons document.getElementById finds 3000 ms later
ToolbarTimer ==
    /\ page.toolbarTimer
    /\ page' = [page EXCEPT !.toolbarTimer = FALSE,
                            !.clickHandler = {"download", "print"} \cap domButtons]
    /\ posted' = <<InjPosted(Debug(Str("Setting up toolbar button overrides..."))),
                   InjPosted(Debug(Str("Found download button, adding click handler"))),
                   InjPosted(Debug(Str("Found print button, adding click handler")))>>
    /\ finished' = NoCall
    /\ UNCHANGED <<scannedValue, pdfSent, pdfUrl, loadEnd, injCalls>>
    /\ UNCHANGED outsideInjected

(***************************************************************************)
(* The injected app.download / app.print and extractPDF                    *)
(***************************************************************************)
InjCommand(fn) == IF fn = "download" THEN "save" ELSE "print"
InjLabel(fn) == IF fn = "download" THEN "Save" ELSE "Print"

\* extractPDF(), up to its first suspension
InjMethod(doc) ==
    IF doc = NoDoc THEN "noDocument"
    ELSE IF "saveDocument" \in DocApi(doc) THEN "saveDocument"
    ELSE IF "getData" \in DocApi(doc) THEN "getData"
    ELSE "noMethod"

\* the debug lines of extractPDF before it suspends or throws
ExtractPrefix(doc) ==
    <<Debug(Str("Extracting PDF data..."))>> \o
    CASE InjMethod(doc) = "noDocument"   -> <<Debug(Str("No PDF document loaded"))>>
      [] InjMethod(doc) = "saveDocument" -> <<Debug(Str("PDF document found, extracting...")),
                                              Debug(Str("Using saveDocument method"))>>
      [] InjMethod(doc) = "getData"      -> <<Debug(Str("PDF document found, extracting...")),
                                              Debug(Str("Using getData method"))>>
      [] OTHER                           -> <<Debug(Str("PDF document found, extracting...")),
                                              Debug(Str("No extraction method available"))>>

\* e.message of what extractPDF throws
Thrown(outcome) ==
    CASE outcome = "noDocument" -> "No PDF loaded"
      [] outcome = "noMethod"   -> "Cannot extract PDF"
      [] outcome = "invalid"    -> "Cannot read properties of undefined"
      [] OTHER                  -> "rejected"

\* the catch block of the injected function
InjCatch(fn, outcome) ==
    <<Debug(<<InjLabel(fn), " error: ", Thrown(outcome)>>)>>

\* the statements after `await extractPDF()`
InjSend(fn, doc) ==
    <<Debug(Str("PDF data extracted, length")),
      Debug(<<"Sending ", InjCommand(fn), " command to React Native">>),
      [command  |-> Str(InjCommand(fn)),
       base64   |-> uint8ArrayToBase64(DocBytes(doc)),
       filename |-> Str("document.pdf")]>>

InjFinished(fn, doc, outcome) ==
    [fn       |-> fn,
     by       |-> "user",
     doc      |-> doc,
     outcome  |-> outcome,
     channel  |-> "rn",
     attempts |-> IF outcome = "data" THEN 1 ELSE 0,
     sent     |-> IF outcome = "data" THEN InjCommand(fn) ELSE "none",
     fnameDoc |-> NoDoc,
     fallback |-> "none",      \* originalDownload / originalPrint are never called
     rejected |-> FALSE,
     tried    |-> Tried(InjMethod(doc))]

RECURSIVE PostAll(_)
PostAll(messages) ==
    IF messages = <<>> THEN <<>>
    ELSE <<InjPosted(Head(messages))>> \o PostAll(Tail(messages))

\* app.download() / app.print() of the injected script is entered; `before`
\* is what the caller sent first
InjInvoke(fn, before) ==
    LET clicked == before \o <<Debug(<<InjLabel(fn), " button clicked!">>)>>
        method  == InjMethod(page.doc)
    IN  IF method \in {"noDocument", "noMethod"} THEN
            \* the rejection is caught in a microtask: no task runs in between
            /\ posted' = PostAll(clicked \o ExtractPrefix(page.doc) \o InjCatch(fn, method))
            /\ finished' = InjFinished(fn, page.doc, method)
            /\ UNCHANGED injCalls
        ELSE
            /\ Len(injCalls) < MaxCalls
            /\ posted' = PostAll(clicked \o ExtractPrefix(page.doc))
            /\ finished' = NoCall
            /\ injCalls' = Append(injCalls, [fn |-> fn, doc |-> page.doc])

\* a click on a button that has the injected handler
InjClick(b) ==
    /\ b \in page.clickHandler
    /\ InjInvoke(b, <<Debug(<<b, " button clicked directly!">>)>>)
    /\ UNCHANGED <<scannedValue, pdfSent, pdfUrl, loadEnd, page>>
    /\ UNCHANGED outsideInjected

\* the viewer calls app.download() / app.print() itself
InjEntryCall(fn) ==
    /\ page.controls
    /\ InjInvoke(fn, <<>>)
    /\ UNCHANGED <<scannedValue, pdfSent, pdfUrl, loadEnd, page>>
    /\ UNCHANGED outsideInjected

\* saveDocument() / getData() settled
InjResume(i) ==
    /\ i \in 1..Len(injCalls)
    /\ \E outcome \in {"data", "invalid", "rejected"} :
          LET c == injCalls[i]
          IN  /\ posted' = PostAll(IF outcome = "data" THEN InjSend(c.fn, c.doc)
                                   ELSE InjCatch(c.fn, outcome))
              /\ finished' = InjFinished(c.fn, c.doc, outcome)
    /\ injCalls' = RemoveAt(injCalls, i)
    /\ UNCHANGED <<scannedValue, pdfSent, pdfUrl, loadEnd, page>>
    /\ UNCHANGED outsideInjected

(***************************************************************************)
(* The raw messages the WebView may deliver                                *)
(***************************************************************************)
Envelopes ==
    {[command |-> Str("ready")],
     [command |-> Str("debug"), message |-> Str("PDF controls configured")],
     [command |-> Str("clear")],
     [command |-> Str("zoom")],
     [command |-> Str("save"), base64 |-> Str("*")]}
    \cup {[command |-> Str(c), base64 |-> uint8ArrayToBase64(DocBytes("d1")),
           filename |-> Str("a.pdf")] : c \in {"save", "print", "share"}}

\* a message cut short in transit
Truncated(raw) == SubSeq(raw, 1, Len(raw) - 1)

\* the envelopes, envelopes cut short, and texts that are no object at all
Raws ==
    {JSONstringify(e) : e \in Envelopes}
    \cup {Truncated(JSONstringify(e)) :
            e \in {e \in Envelopes : e["command"] \in {Str("save"), Str("ready")}}}
    \cup {<<>>, <<Punct("null")>>, <<StrTok(Str("save"))>>}

\* JSON.parse(event.nativeEvent.data) for each of these messages
ParseTable == [raw \in Raws |-> JSONparse(raw)]

\* the envelopes of the PDF actions, and the ready signal
ActionRaws ==
    {JSONstringify(e) :
        e \in {e \in Envelopes :
                 e["command"] \in {Str("save"), Str("print"), Str("share"), Str("ready")}}}

(***************************************************************************)
(* receivedFromWebView (PDFViewer.jsx): the host's onMessage handler       *)
(***************************************************************************)
NoRaw == <<Punct("none")>>

Effect(op, arg) == [op |-> op, arg |-> arg]

Range(seq) == {seq[k] : k \in 1..Len(seq)}

\* the inverse of B64Char, 64 for what is not in the alphabet
B64Index(ch) ==
    IF \E k \in 1..64 : B64Alphabet[k] = ch
    THEN (CHOOSE k \in 1..64 : B64Alphabet[k] = ch) - 1
    ELSE 64

\* RNFetchBlob.fs.writeFile(path, data, 'base64') decodes the text
RECURSIVE Base64Decode(_)
Base64Decode(text) ==
    IF text = <<>> THEN [ok |-> TRUE, bytes |-> <<>>]
    ELSE IF Len(text) < 4 THEN [ok |-> FALSE, bytes |-> <<>>]
    ELSE
        LET a    == B64Index(text[1])
            b    == B64Index(text[2])
            c    == B64Index(text[3])
            d    == B64Index(text[4])
            last == Len(text) = 4
            rest == Base64Decode(SubSeq(text, 5, Len(text)))
        IN  IF a = 64 \/ b = 64 THEN [ok |-> FALSE, bytes |-> <<>>]
            ELSE IF last /\ text[3] = "=" /\ text[4] = "=" THEN
                [ok |-> TRUE, bytes |-> <<a * 4 + b \div 16>>]
            ELSE IF c = 64 THEN [ok |-> FALSE, bytes |-> <<>>]
            ELSE IF last /\ text[4] = "=" THEN
                [ok |-> TRUE, bytes |-> <<a * 4 + b \div 16, (b % 16) * 16 + c \div 4>>]
            ELSE IF d = 64 THEN [ok |-> FALSE, bytes |-> <<>>]
            ELSE [ok    |-> rest.ok,
                  bytes |-> <<a * 4 + b \div 16, (b % 16) * 16 + c \div 4, (c % 4) * 64 + d>>
                            \o rest.bytes]

\* `${data.field}` in a template literal
Template(data, field) ==
    IF field \in DOMAIN data THEN data[field] ELSE Str("undefined")

\* the file the command writes
TargetPath(data) ==
    CASE data["command"] = Str("save")  -> <<"DownloadDir", "/">> \o Template(data, "filename")
      [] data["command"] = Str("print") -> <<"CacheDir", "/", "temp_print_", ToString(now), ".pdf">>
      [] OTHER                          -> <<"CacheDir", "/">> \o Template(data, "filename")

\* a catch block that alerts the user as the inner catch blocks do
InvalidJSONAlerts(err) ==
    <<Effect("warn", Str("Invalid JSON from WebView:")),
      Effect("alert", Str("Failed to process PDF"))>>

\* the catch block of the outer try: console.warn('Invalid JSON from WebView:', err)
InvalidJSON(err) == <<Effect("warn", Str("Invalid JSON from WebView:"))>>

\* a test that takes every command other than the two logged ones for a PDF action
IsPDFActionLoose(data) ==
    /\ "command" \in DOMAIN data
    /\ data["command"] \notin {Str("ready"), Str("debug")}

\* a test that stops taking PDF actions once one of them has failed
IsPDFActionUntilFailure(data) ==
    /\ ~failedBefore
    /\ "command" \in DOMAIN data
    /\ data["command"] \in {Str("save"), Str("print"), Str("share")}

\* if (data.command === 'save' || data.command === 'print' || data.command === 'share')
IsPDFAction(data) ==
    /\ "command" \in DOMAIN data
    /\ data["command"] \in {Str("save"), Str("print"), Str("share")}

\* the console lines of the branches that match data.command
CommandLog(data) ==
    <<Effect("log", Str("Received data from WebView:"))>> \o
    (IF "command" \in DOMAIN data /\ data["command"] = Str("ready")
     THEN <<Effect("log", Str("WebView ready signal received"))>> ELSE <<>>) \o
    (IF "command" \in DOMAIN data /\ data["command"] = Str("debug")
     THEN <<Effect("log", Template(data, "message"))>> ELSE <<>>)

\* a write that is not awaited: the file is not there when the handler goes on
NotYetWritten(path, bytes) == files

\* a write that appends to the file it finds
WrittenAppending(path, bytes) ==
    [f \in DOMAIN files \cup {path} |->
        IF f # path THEN files[f]
        ELSE IF path \in DOMAIN files THEN files[path] \o bytes ELSE bytes]

\* the file system after a write
Written(path, bytes) ==
    [f \in DOMAIN files \cup {path} |-> IF f = path THEN bytes ELSE files[f]]

\* the file system after an unlink
Unlinked(path) == [f \in DOMAIN files \ {path} |-> files[f]]

\* the invocations suspended at an await, and the cleanup timers that are armed
InFlight == BagCardinality(handlers) + BagCardinality(cleanup)

\* the message is one the handler starts a PDF action for
Starts(raw) ==
    /\ ~ParseTable[raw].threw
    /\ ParseTable[raw].kind = "object"
    /\ IsPDFAction(ParseTable[raw].value)

\* onMessage={receivedFromWebView}: the handler runs up to its first await
ReceivedFromWebView(raw) ==
    LET parsed == ParseTable[raw]
        data   == parsed.value
    IN  /\ received' = raw
        /\ IF parsed.threw THEN
               /\ effects' = InvalidJSON("SyntaxError")
               /\ UNCHANGED handlers
           ELSE IF parsed.kind = "null" THEN
               \* data.command of null is a TypeError; console.log ran before it
               /\ effects' = <<Effect("log", Str("Received data from WebView:"))>>
                             \o InvalidJSON("TypeError")
               /\ UNCHANGED handlers
           ELSE IF parsed.kind = "string" THEN
               \* data.command is undefined: no branch matches
               /\ effects' = <<Effect("log", Str("Received data from WebView:"))>>
               /\ UNCHANGED handlers
           ELSE IF ~IsPDFAction(data) THEN
               /\ effects' = CommandLog(data)
               /\ UNCHANGED handlers
           ELSE
               /\ InFlight < MaxHandlers
               /\ effects' = CommandLog(data)
                             \o <<Effect("writeFile", TargetPath(data))>>
               /\ handlers' = handlers (+) SetToBag({[command |-> data["command"][1],
                                                      pc      |-> "writeFile",
                                                      path    |-> TargetPath(data),
                                                      base64  |-> Template(data, "base64")]})
        /\ UNCHANGED <<files, cleanup, now, failedBefore>>
        /\ UNCHANGED outsideHost

\* a catch block that only logs
FailureLogOnly(command) == Effect("log", Str("failed"))

\* the Alert of the catch block around a command's file write and native call
FailureAlert(command) ==
    CASE command = "save"  -> Effect("alert", Str("Failed to save PDF file"))
      [] command = "print" -> Effect("alert", Str("Failed to open print dialog"))
      [] OTHER             -> Effect("alert", Str("Failed to share PDF file"))

\* Alert.alert('Success', `PDF saved to Downloads folder as ${data.filename}`)
SavedAlert(filePath) ==
    Effect("alert", <<"PDF saved to Downloads folder as ">>
                    \o SubSeq(filePath, 3, Len(filePath)))

\* await RNFetchBlob.fs.writeFile(...) settles in the invocation h
WriteFileSettles(h) ==
    /\ BagIn(h, handlers)
    /\ h.pc = "writeFile"
    /\ \E diskOk \in BOOLEAN :
          LET decoded == Base64Decode(h.base64)
              ok      == diskOk /\ decoded.ok
              others  == handlers (-) SetToBag({h})
          IN  /\ files' = IF ok THEN Written(h.path, decoded.bytes) ELSE files
              /\ IF ~ok THEN
                     /\ effects' = <<Effect("error", Str(h.command)), FailureAlert(h.command)>>
                     /\ handlers' = others
                 ELSE IF h.command = "save" THEN
                     /\ effects' = <<SavedAlert(h.path)>>
                     /\ handlers' = others
                 ELSE
                     /\ effects' = <<Effect(h.command, h.path)>>
                     /\ handlers' = others (+) SetToBag({[h EXCEPT !.pc = "native"]})
    /\ received' = NoRaw
    /\ failedBefore' = (failedBefore \/ FailureAlert(h.command) \in Range(effects'))
    /\ UNCHANGED <<cleanup, now>>
    /\ UNCHANGED outsideHost

\* await RNPrint.print(...) / await Share.share(...) settles in the invocation h
NativeSettles(h) ==
    /\ BagIn(h, handlers)
    /\ h.pc = "native"
    /\ \E ok \in BOOLEAN :
          /\ effects' = IF ok THEN <<>>
                        ELSE <<Effect("error", Str(h.command)), FailureAlert(h.command)>>
          \* the cleanup timer is set only after the native call succeeded
          /\ cleanup' = IF ok THEN cleanup (+) SetToBag({h.path}) ELSE cleanup
    /\ handlers' = handlers (-) SetToBag({h})
    /\ received' = NoRaw
    /\ failedBefore' = (failedBefore \/ FailureAlert(h.command) \in Range(effects'))
    /\ UNCHANGED <<files, now>>
    /\ UNCHANGED outsideHost

\* a rejection handler that tells the user
CouldNotDeleteAlerts(tempPath) ==
    <<Effect("alert", Str("Failed to delete temporary file"))>>

\* .catch(() => { console.log('Could not delete temp print file') }) / .catch(() => {})
CouldNotDelete(tempPath) ==
    IF tempPath[3] = "temp_print_"
    THEN <<Effect("log", Str("Could not delete temp print file"))>>
    ELSE <<>>

\* setTimeout(() => RNFetchBlob.fs.unlink(tempPath).catch(...), 5000)
CleanupTimer(tempPath) ==
    /\ BagIn(tempPath, cleanup)
    /\ \E ok \in BOOLEAN :
          LET deleted == ok /\ tempPath \in DOMAIN files
          IN  /\ files' = IF deleted THEN Unlinked(tempPath) ELSE files
              /\ effects' = <<Effect("unlink", tempPath)>> \o
                            (IF deleted THEN <<>> ELSE CouldNotDelete(tempPath))
    /\ cleanup' = cleanup (-) SetToBag({tempPath})
    /\ received' = NoRaw
    /\ UNCHANGED <<handlers, now, failedBefore>>
    /\ UNCHANGED outsideHost

\* the clock advances
Tick ==
    /\ now < MaxNow
    /\ now' = now + 1
    /\ received' = NoRaw
    /\ effects' = <<>>
    /\ UNCHANGED <<handlers, files, cleanup, failedBefore>>
    /\ UNCHANGED outsideHost

(***************************************************************************)
(* index.js: loadPDFfromArrayBuffer / loadPDFfromURL and renderPDF         *)
(***************************************************************************)
WebDocs == {"d1", "d2"}

\* pdf.numPages
NumPages(d) == IF d = "d1" THEN 2 ELSE 1

\* the file input's change handler (via FileReader), or the load-url click
LoadPDF(d, from) ==
    /\ requested < MaxRequests
    /\ Len(loads) < MaxLoads
    /\ requested' = requested + 1
    /\ loads' = Append(loads, [req |-> requested + 1, doc |-> d, from |-> from])
    /\ alerted' = <<>>
    /\ UNCHANGED <<pageTasks, viewer, rendered>>
    /\ UNCHANGED outsideWeb

\* renderPDF(pdf): what it checks before it touches the viewer: nothing
IsCurrent(req) == TRUE

\* for (pageNum = 1; pageNum <= pdf.numPages; pageNum++) pdf.getPage(pageNum).then(...)
PageRequests(load) ==
    [n \in 1..NumPages(load.doc) |-> [req |-> load.req, doc |-> load.doc, pageNum |-> n]]

\* getDocument(...).promise settles: .then(renderPDF).catch(err => alert(...))
GetDocumentSettles(i) ==
    /\ i \in 1..Len(loads)
    /\ \E ok \in BOOLEAN :
          LET load == loads[i]
          IN  IF ok /\ IsCurrent(load.req) THEN
                  \* viewer.innerHTML = ''
                  /\ viewer' = <<>>
                  /\ pageTasks' = pageTasks \o PageRequests(load)
                  /\ rendered' = rendered \cup {load.req}
                  /\ alerted' = <<>>
              ELSE
                  /\ alerted' = IF ok THEN <<>>
                                ELSE IF load.from = "url" THEN Str("Error loading PDF: ")
                                ELSE Str("Error rendering PDF: ")
                  /\ UNCHANGED <<viewer, pageTasks, rendered>>
    /\ loads' = RemoveAt(loads, i)
    /\ UNCHANGED requested
    /\ UNCHANGED outsideWeb

\* a getPage promise settles: the canvas is appended to the viewer
GetPageSettles(j) ==
    /\ j \in 1..Len(pageTasks)
    /\ \E ok \in BOOLEAN :
          viewer' = IF ok THEN Append(viewer, [req     |-> pageTasks[j].req,
                                               doc     |-> pageTasks[j].doc,
                                               pageNum |-> pageTasks[j].pageNum])
                    ELSE viewer
    /\ pageTasks' = RemoveAt(pageTasks, j)
    /\ alerted' = <<>>
    /\ UNCHANGED <<requested, loads, rendered>>
    /\ UNCHANGED outsideWeb

(***************************************************************************)
(* The parts of the state a specification does not run                     *)
(***************************************************************************)
IdleBridge ==
    /\ PDFViewerApplication = AbsentApp
    /\ ReactNativeWebView = FALSE
    /\ parentPostMessage = FALSE
    /\ listeners = [b \in Buttons |-> 0]
    /\ strategy1 = "done"
    /\ strategy2 = "done"
    /\ pollInterval = [active |-> FALSE, attempts |-> 0, gaveUp |-> FALSE]
    /\ loadTimer = "done"
    /\ calls = <<>>

IdleHost ==
    /\ received = NoRaw
    /\ effects = <<>>
    /\ handlers = EmptyBag
    /\ files = <<>>
    /\ cleanup = EmptyBag
    /\ now = 0
    /\ failedBefore = FALSE

IdleFocus ==
    /\ screen = [mounted |-> TRUE, focused |-> TRUE]
    /\ sentToWebView = NoRaw

IdlePicker ==
    /\ pdfViewer = 0
    /\ created = [eventBus |-> 0, linkService |-> 0, viewer |-> 0]
    /\ fileLoads = <<>>
    /\ selected = 0
    /\ messageArea = [text |-> "", type |-> ""]
    /\ setDocumentCalls = <<>>

IdleWeb ==
    /\ requested = 0
    /\ loads = <<>>
    /\ pageTasks = <<>>
    /\ viewer = <<>>
    /\ rendered = {}
    /\ alerted = <<>>

NoCodec == [kind |-> "none", stage |-> "none", input |-> <<>>, wire |-> <<>>, output |-> <<>>]

IdleCodec == codec = NoCodec

IdleInjected ==
    /\ scannedValue = FALSE
    /\ pdfSent = FALSE
    /\ pdfUrl = "blank"
    /\ loadEnd = FALSE
    /\ page = FreshPage("blank")
    /\ injCalls = <<>>

(***************************************************************************)
(* SpecBridge: the override module from the moment its script runs         *)
(***************************************************************************)
InitBridge ==
    /\ IdleFocus
    /\ IdlePicker
    /\ PDFViewerApplication \in {AbsentApp, FreshApp}
    /\ \E ch \in Channels : ReactNativeWebView = ch[1] /\ parentPostMessage = ch[2]
    /\ listeners = [b \in Buttons |-> 0]
    /\ strategy1 = "listening"
    /\ strategy2 \in {"loading", "timer"}
    /\ pollInterval = [active |-> TRUE, attempts |-> 0, gaveUp |-> FALSE]
    /\ loadTimer = "waiting"
    /\ calls = <<>>
    /\ finished = NoCall
    /\ posted = <<>>
    /\ IdleInjected
    /\ IdleHost
    /\ IdleWeb
    /\ IdleCodec

NextBridge ==
    \/ WebViewerLoaded
    \/ Strategy1Timer
    \/ DOMContentLoaded
    \/ Strategy2Timer
    \/ Strategy2Retry
    \/ PollTick
    \/ WindowLoad
    \/ ReadyTimer
    \/ AppAppears
    \/ AppInitialized
    \/ AppTornDown
    \/ \E ch \in Channels : ChannelChange(ch[1], ch[2])

SpecBridge == InitBridge /\ [][NextBridge]_vars

(***************************************************************************)
(* SpecWrappers: the module after its timers have run.  setupOverrides     *)
(* succeeded once for every strategy that reached it with the app and a    *)
(* channel present.                                                        *)
(***************************************************************************)
\* Strategy 1, Strategy 2, Strategy 3
Strategies == 3

RECURSIVE AfterSetups(_, _)
AfterSetups(app, k) ==
    IF k = 0 THEN app ELSE AfterSetups(OverriddenApp(app), k - 1)

RECURSIVE ListenersAfter(_, _)
ListenersAfter(ls, k) ==
    IF k = 0 THEN ls ELSE ListenersAfter(setupToolbarOverrides(ls), k - 1)

InitWrappers ==
    /\ IdleFocus
    /\ IdlePicker
    /\ \E k \in 1..Strategies :
          /\ PDFViewerApplication = AfterSetups(FreshApp, k)
          /\ listeners = ListenersAfter([b \in Buttons |-> 0], k)
    /\ \E ch \in Channels : ReactNativeWebView = ch[1] /\ parentPostMessage = ch[2]
    /\ Channel # "none"
    /\ strategy1 = "done"
    /\ strategy2 = "done"
    /\ pollInterval = [active |-> FALSE, attempts |-> 0, gaveUp |-> FALSE]
    /\ loadTimer = "done"
    /\ calls = <<>>
    /\ finished = NoCall
    /\ posted = <<>>
    /\ IdleInjected
    /\ IdleHost
    /\ IdleWeb
    /\ IdleCodec

NextWrappers ==
    \/ \E b \in Buttons : Click(b)
    \/ \E fn \in {"overrideDownload", "overridePrint"} : EntryPointCall(fn)
    \/ \E i \in 1..MaxCalls : ResumeMicrotask(i)
    \/ \E i \in 1..MaxCalls : ResumeAwait(i)
    \/ AppAppears
    \/ AppInitialized
    \/ \E d \in Docs \cup {NoDoc} : DocumentChange(d)
    \/ AppTornDown
    \/ \E ch \in Channels : ChannelChange(ch[1], ch[2])

SpecWrappers == InitWrappers /\ [][NextWrappers]_vars

(***************************************************************************)
(* SpecInjected: the host's WebView, its navigation and the injected       *)
(* script.  SpecInjectedFair adds what the assumption "the renderer        *)
(* eventually initializes and timers fire" grants.                         *)
(***************************************************************************)
InitInjected ==
    /\ IdleFocus
    /\ IdlePicker
    /\ scannedValue \in BOOLEAN
    /\ pdfSent = FALSE
    /\ pdfUrl = "blank"
    /\ loadEnd = FALSE
    /\ page = FreshPage("blank")
    /\ injCalls = <<>>
    /\ finished = NoCall
    /\ posted = <<>>
    /\ IdleBridge
    /\ IdleHost
    /\ IdleWeb
    /\ IdleCodec

NextInjected ==
    \/ PageLoaded
    \/ OnLoadEnd
    \/ Navigate
    \/ RendererAppears
    \/ RendererInitialized
    \/ \E d \in Docs : RendererOpens(d)
    \/ SetupPDFControls
    \/ ToolbarTimer
    \/ \E b \in {"download", "print"} : InjClick(b)
    \/ \E fn \in {"download", "print"} : InjEntryCall(fn)
    \/ \E i \in 1..MaxCalls : InjResume(i)

SpecInjected == InitInjected /\ [][NextInjected]_vars

SpecInjectedFair ==
    /\ SpecInjected
    /\ WF_vars(PageLoaded)
    /\ WF_vars(OnLoadEnd)
    /\ WF_vars(Navigate)
    /\ WF_vars(RendererAppears)
    /\ WF_vars(RendererInitialized)
    /\ WF_vars(SetupPDFControls)

(***************************************************************************)
(* SpecHost: the host's message handler, fed any raw message               *)
(***************************************************************************)
InitHost ==
    /\ IdleFocus
    /\ IdlePicker
    /\ IdleHost
    /\ IdleWeb
    /\ IdleCodec
    /\ IdleBridge
    /\ IdleInjected
    /\ finished = NoCall
    /\ posted = <<>>

NextHost ==
    \/ \E raw \in Raws : (Starts(raw) => InFlight < MaxInFlight) /\ ReceivedFromWebView(raw)
    \/ \E h \in BagToSet(handlers) : WriteFileSettles(h)
    \/ \E h \in BagToSet(handlers) : NativeSettles(h)
    \/ \E tempPath \in BagToSet(cleanup) : CleanupTimer(tempPath)
    \/ Tick

SpecHost == InitHost /\ [][NextHost]_vars

(***************************************************************************)
(* SpecActions: the host's PDF actions, several of them in flight          *)
(***************************************************************************)
NextActions ==
    \/ \E raw \in ActionRaws : ReceivedFromWebView(raw)
    \/ \E h \in BagToSet(handlers) : WriteFileSettles(h)
    \/ \E h \in BagToSet(handlers) : NativeSettles(h)
    \/ \E tempPath \in BagToSet(cleanup) : CleanupTimer(tempPath)
    \/ Tick

SpecActions == InitHost /\ [][NextActions]_vars

(***************************************************************************)
(* The host screen's focus effect (PDFViewer.jsx, useFocusEffect): what    *)
(* the host posts to the WebView, and when                                 *)
(***************************************************************************)
\* what an action of the focus effect leaves alone
outsideFocus == <<bridgeVars, obsVars, injVars, webVars, pickerVars, codecVars>>

\* JSON.stringify({ command: 'clear' })
ClearMessage == JSONstringify([command |-> Str("clear")])

\* webviewRef.current?.postMessage(message): nothing is posted through a null ref
PostToWebView(message, ref) == IF ref THEN message ELSE sentToWebView

\* a step of the focus effect is not a step of the message handler
HandlerIdle ==
    /\ received' = NoRaw
    /\ effects' = <<>>
    /\ UNCHANGED <<handlers, files, cleanup, now, failedBefore>>

\* onBackPress: the hardware back button while the subscription exists
BackPress ==
    /\ screen.focused
    /\ sentToWebView' = PostToWebView(ClearMessage, screen.mounted)
    /\ UNCHANGED screen
    /\ HandlerIdle
    /\ UNCHANGED outsideFocus

\* the cleanup of the focus effect: the screen loses focus and stays mounted
Blur ==
    /\ screen.focused
    /\ screen' = [screen EXCEPT !.focused = FALSE]
    /\ sentToWebView' = PostToWebView(ClearMessage, screen.mounted)
    /\ HandlerIdle
    /\ UNCHANGED outsideFocus

\* the screen gets focus again: the effect runs and subscribes again
Focus ==
    /\ screen.mounted
    /\ ~screen.focused
    /\ screen' = [screen EXCEPT !.focused = TRUE]
    /\ UNCHANGED sentToWebView
    /\ HandlerIdle
    /\ UNCHANGED outsideFocus

\* the screen is removed: the cleanup runs if the effect was active, and
\* the ref may already be null by then
Unmount ==
    /\ screen.mounted
    /\ screen' = [mounted |-> FALSE, focused |-> FALSE]
    /\ \E ref \in BOOLEAN :
          sentToWebView' = IF screen.focused THEN PostToWebView(ClearMessage, ref)
                           ELSE sentToWebView
    /\ HandlerIdle
    /\ UNCHANGED outsideFocus

\* onMessage={receivedFromWebView}: the WebView delivers while it is mounted
Delivered(raw) ==
    /\ screen.mounted
    /\ ReceivedFromWebView(raw)

(***************************************************************************)
(* SpecFocus: the focus effect next to the host's PDF actions              *)
(***************************************************************************)
NextFocus ==
    \/ BackPress
    \/ Blur
    \/ Focus
    \/ Unmount
    \/ \E raw \in ActionRaws : Delivered(raw)
    \/ \E h \in BagToSet(handlers) : WriteFileSettles(h)
    \/ \E h \in BagToSet(handlers) : NativeSettles(h)
    \/ \E tempPath \in BagToSet(cleanup) : CleanupTimer(tempPath)

SpecFocus == InitHost /\ [][NextFocus]_vars

(***************************************************************************)
(* index.js, the file-selection page: the change handler of pdfFileInput,  *)
(* its FileReader callbacks and the promises it waits for                  *)
(***************************************************************************)
\* what an action of the file-selection page leaves alone
outsidePicker == <<bridgeVars, obsVars, injVars, hostVars, focusVars, webVars, codecVars>>

\* messageArea.textContent = text; the class follows the type
showMessage(text, type) == [text |-> text, type |-> type]

\* what event.target.files[0] can be: nothing, a file of another type, a PDF
FileKinds == {"none", "other", "pdf"}

\* pdfFileInput.addEventListener('change', ...)
FileInputChange(kind) ==
    /\ IF kind = "none" THEN
           /\ messageArea' = showMessage("No file selected.", "error")
           /\ UNCHANGED <<fileLoads, selected>>
       ELSE IF kind = "other" THEN
           /\ messageArea' = showMessage("Please select a valid PDF file.", "error")
           /\ UNCHANGED <<fileLoads, selected>>
       ELSE
           /\ selected < MaxRequests
           /\ Len(fileLoads) < MaxLoads
           /\ messageArea' = showMessage("Loading PDF, please wait...", "loading")
           \* fileReader.readAsArrayBuffer(file)
           /\ fileLoads' = Append(fileLoads, [pc |-> "read"])
           /\ selected' = selected + 1
    /\ UNCHANGED <<pdfViewer, created, setDocumentCalls>>
    /\ UNCHANGED outsidePicker

\* a guard that never finds an instance
ViewerAlwaysMissing == TRUE

\* if (!pdfViewer)
ViewerMissing == pdfViewer = 0

\* fileReader.onload, up to `await pdfjsLib.getDocument(...).promise`
FileReaderOnload(i) ==
    /\ i \in 1..Len(fileLoads)
    /\ fileLoads[i].pc = "read"
    /\ IF ViewerMissing THEN
           /\ created' = [eventBus    |-> created.eventBus + 1,
                          linkService |-> created.linkService + 1,
                          viewer      |-> created.viewer + 1]
           /\ pdfViewer' = created.viewer + 1
       ELSE
           UNCHANGED <<created, pdfViewer>>
    /\ messageArea' = showMessage("Processing PDF...", "loading")
    /\ fileLoads' = [fileLoads EXCEPT ![i].pc = "getDocument"]
    /\ UNCHANGED <<selected, setDocumentCalls>>
    /\ UNCHANGED outsidePicker

\* fileReader.onerror
FileReaderOnerror(i) ==
    /\ i \in 1..Len(fileLoads)
    /\ fileLoads[i].pc = "read"
    /\ messageArea' = showMessage("Error reading the selected file.", "error")
    /\ fileLoads' = RemoveAt(fileLoads, i)
    /\ UNCHANGED <<pdfViewer, created, selected, setDocumentCalls>>
    /\ UNCHANGED outsidePicker

\* the awaited getDocument promise settles: the onload function goes on with
\* pdfViewer.setDocument(pdfDocument), or its own promise rejects, unhandled
GetDocumentPromiseSettles(i) ==
    /\ i \in 1..Len(fileLoads)
    /\ fileLoads[i].pc = "getDocument"
    /\ \E ok \in BOOLEAN :
          IF ok THEN
              /\ setDocumentCalls' = Append(setDocumentCalls, pdfViewer)
              /\ fileLoads' = [fileLoads EXCEPT ![i].pc = "firstPage"]
          ELSE
              /\ fileLoads' = RemoveAt(fileLoads, i)
              /\ UNCHANGED setDocumentCalls
    /\ UNCHANGED <<pdfViewer, created, selected, messageArea>>
    /\ UNCHANGED outsidePicker

\* pdfViewer.firstPagePromise.then(...).catch(...)
FirstPagePromiseSettles(i) ==
    /\ i \in 1..Len(fileLoads)
    /\ fileLoads[i].pc = "firstPage"
    /\ \E ok \in BOOLEAN :
          messageArea' =
              IF ok
              THEN showMessage("PDF loaded successfully. You can scroll to view all pages.",
                               "success")
              ELSE showMessage("Error rendering PDF: ", "error")
    /\ fileLoads' = RemoveAt(fileLoads, i)
    /\ UNCHANGED <<pdfViewer, created, selected, setDocumentCalls>>
    /\ UNCHANGED outsidePicker

(***************************************************************************)
(* SpecPicker: the file-selection page, selections overlapping             *)
(***************************************************************************)
InitPicker ==
    /\ IdlePicker
    /\ IdleFocus
    /\ IdleWeb
    /\ IdleCodec
    /\ IdleBridge
    /\ IdleInjected
    /\ IdleHost
    /\ finished = NoCall
    /\ posted = <<>>

NextPicker ==
    \/ \E kind \in FileKinds : FileInputChange(kind)
    \/ \E i \in 1..MaxLoads : FileReaderOnload(i)
    \/ \E i \in 1..MaxLoads : FileReaderOnerror(i)
    \/ \E i \in 1..MaxLoads : GetDocumentPromiseSettles(i)
    \/ \E i \in 1..MaxLoads : FirstPagePromiseSettles(i)

SpecPicker == InitPicker /\ [][NextPicker]_vars

(***************************************************************************)
(* SpecWeb: the standalone viewer page                                     *)
(***************************************************************************)
InitWeb ==
    /\ IdleFocus
    /\ IdlePicker
    /\ IdleWeb
    /\ IdleCodec
    /\ IdleBridge
    /\ IdleInjected
    /\ IdleHost
    /\ finished = NoCall
    /\ posted = <<>>

NextWeb ==
    \/ \E d \in WebDocs, from \in {"file", "url"} : LoadPDF(d, from)
    \/ \E i \in 1..MaxLoads : GetDocumentSettles(i)
    \/ \E j \in DOMAIN pageTasks : GetPageSettles(j)

SpecWeb == InitWeb /\ [][NextWeb]_vars

(***************************************************************************)
(* SpecCodec: a value goes through a conversion and back.  An envelope is  *)
(* serialized by sendToReactNative and deserialized by the host's handler; *)
(* a byte buffer is encoded by uint8ArrayToBase64 and read back the way    *)
(* the standalone page's file reader reads base64.                         *)
(***************************************************************************)
\* characters a title, a file name or a message may hold
Pieces == {"a", ",", "\"", "\\", "\n"}

PayloadStrings == UNION {[1..n -> Pieces] : n \in 0..MaxPayload}

\* the messages of the outbound vocabulary
CodecEnvelopes ==
    {[command |-> Str("ready")]}
    \cup {[command |-> Str("debug"), message |-> m] : m \in PayloadStrings}
    \cup {[command |-> Str(c), base64 |-> uint8ArrayToBase64(DocBytes(d)), filename |-> f] :
            c \in {"save", "print", "share"}, d \in {"d1", "d4"}, f \in PayloadStrings}

\* a buffer of the given length; its content does not repeat with the chunk size
Bytes(len, seed) == Sequence([i \in 1..len |-> (((i * 7) % 251) + seed) % 256])

\* short buffers, and buffers of whole chunks and up to two bytes after them,
\* each named by its length and the seed of its content
CodecBuffers ==
    {[len |-> len, seed |-> seed] : len \in 0..MaxShort, seed \in {0, 250}}
    \cup {[len |-> k * chunkSize + r, seed |-> 0] : k \in 1..MaxChunks, r \in 0..2}

\* the first place where two buffers differ, 0 if they are equal
FirstDifference(a, b) ==
    LET n     == Min(Len(a), Len(b))
        diffs == {i \in 1..n : a[i] # b[i]}
    IN  IF diffs # {} THEN CHOOSE i \in diffs : \A j \in diffs : i <= j
        ELSE IF Len(a) # Len(b) THEN n + 1
        ELSE 0

\* postMessage(JSON.stringify(message))
SendEnvelope ==
    /\ codec.kind = "envelope"
    /\ codec.stage = "made"
    /\ codec' = [codec EXCEPT !.stage = "sent", !.wire = JSONstringifyText(codec.input)]
    /\ UNCHANGED outsideCodec

\* const data = JSON.parse(event.nativeEvent.data)
OnEnvelope ==
    /\ codec.kind = "envelope"
    /\ codec.stage = "sent"
    /\ codec' = [codec EXCEPT !.stage = "received", !.output = JSONparseText(codec.wire)]
    /\ UNCHANGED outsideCodec

\* uint8ArrayToBase64(new Uint8Array(data)), then on the reading side
\* const raw = atob(base64); ... uint8Array[i] = raw.charCodeAt(i).
\* Of the text and of the bytes read back the state keeps the lengths and the
\* first place where the bytes differ from the buffer.
EncodeDecode ==
    /\ codec.kind = "buffer"
    /\ codec.stage = "made"
    /\ LET uint8Array == Bytes(codec.input.len, codec.input.seed)
           base64     == uint8ArrayToBase64(uint8Array)
           decoded    == atob(base64)
           readBack   == charCodes(decoded.raw)
       IN  codec' = [codec EXCEPT !.stage  = "decoded",
                                  !.wire   = [length |-> Len(base64)],
                                  !.output = [threw   |-> decoded.threw,
                                              length  |-> Len(readBack),
                                              differs |-> FirstDifference(readBack, uint8Array)]]
    /\ UNCHANGED outsideCodec

InitCodec ==
    /\ IdleFocus
    /\ IdlePicker
    /\ IdleBridge
    /\ IdleInjected
    /\ IdleHost
    /\ IdleWeb
    /\ finished = NoCall
    /\ posted = <<>>
    /\ \/ \E e \in CodecEnvelopes :
             codec = [kind |-> "envelope", stage |-> "made", input |-> e,
                      wire |-> <<>>, output |-> <<>>]
       \/ \E b \in CodecBuffers :
             codec = [kind |-> "buffer", stage |-> "made", input |-> b,
                      wire |-> <<>>, output |-> <<>>]

NextCodec ==
    \/ SendEnvelope
    \/ OnEnvelope
    \/ EncodeDecode

SpecCodec == InitCodec /\ [][NextCodec]_vars

(***************************************************************************)
(* SpecSend: sendToReactNative called with each message of the override    *)
(* module, under each arrangement of the channels                          *)
(***************************************************************************)
SentMessages == WrapperMessages \cup {[command |-> Str("ready")]}

\* one call of sendToReactNative(message); what reached a channel is in posted
SendMessage ==
    /\ codec.kind = "send"
    /\ codec.stage = "made"
    /\ \E raises \in BOOLEAN :
          LET send == sendToReactNative(codec.input, raises)
          IN  /\ codec' = [codec EXCEPT !.stage = "returned",
                                        !.output = [returned |-> send.returned,
                                                    threw    |-> send.threw,
                                                    attempts |-> send.attempts,
                                                    raised   |-> raises]]
              /\ posted' = IF send.handed THEN <<Posted(send.via, send.raw)>> ELSE <<>>
    /\ UNCHANGED <<bridgeVars, finished, injVars, hostVars, focusVars, webVars, pickerVars>>

InitSend ==
    /\ IdleFocus
    /\ IdlePicker
    /\ IdleInjected
    /\ IdleHost
    /\ IdleWeb
    /\ PDFViewerApplication = AbsentApp
    /\ \E ch \in Channels : ReactNativeWebView = ch[1] /\ parentPostMessage = ch[2]
    /\ listeners = [b \in Buttons |-> 0]
    /\ strategy1 = "done"
    /\ strategy2 = "done"
    /\ pollInterval = [active |-> FALSE, attempts |-> 0, gaveUp |-> FALSE]
    /\ loadTimer = "done"
    /\ calls = <<>>
    /\ finished = NoCall
    /\ posted = <<>>
    /\ \E m \in SentMessages :
          codec = [kind |-> "send", stage |-> "made", input |-> m,
                   wire |-> <<>>, output |-> <<>>]

NextSend == SendMessage

SpecSend == InitSend /\ [][NextSend]_vars

(***************************************************************************)
(* What an observer of the channel reads from an envelope                  *)
(***************************************************************************)
CommandOf(raw) ==
    LET parsed == JSONparse(raw)
    IN  IF parsed.kind = "object" /\ "command" \in DOMAIN parsed.value
        THEN parsed.value["command"] ELSE <<>>

PostedCommands == {CommandOf(posted[k].raw) : k \in 1..Len(posted)}

(***************************************************************************)
(* C1: a wrapper invoked while there is no active document (the            *)
(* application object missing, or its pdfDocument unset) transmits no      *)
(* save or print envelope, and its promise does not reject.                *)
(***************************************************************************)
C1_NoDocumentNoEnvelopeNoRejection ==
    (finished.fn \in {"overrideDownload", "overridePrint"} /\ finished.doc = NoDoc)
        => /\ finished.sent = "none"
           /\ PostedCommands \cap {Str("save"), Str("print")} = {}
           /\ ~finished.rejected

(***************************************************************************)
(* C2: a wrapper that finds neither channel reachable invokes the          *)
(* original entry point exactly once and makes no postMessage call.        *)
(***************************************************************************)
C2_UnreachableChannelFallsBackOnce ==
    (finished.fn \in {"overrideDownload", "overridePrint"} /\ finished.channel = "none")
        => /\ finished.fallback = "library"
           /\ finished.attempts = 0
           /\ posted = <<>>

(***************************************************************************)
(* C3: a wrapper whose extraction fails invokes the originally saved       *)
(* library entry point as its fallback.                                    *)
(***************************************************************************)
C3_FailureInvokesLibraryFallback ==
    (finished.fn \in {"overrideDownload", "overridePrint"}
        /\ finished.outcome \in {"noDocument", "noMethod", "invalid", "rejected"})
        => finished.fallback = "library"

(***************************************************************************)
(* C4: whatever setupOverrides calls have run, originalDownload and        *)
(* originalPrint are the library's own functions, never the wrappers.      *)
(***************************************************************************)
C4_OriginalsAreLibraryFunctions ==
    /\ PDFViewerApplication.originalDownload \in {"unset", "libDownload"}
    /\ PDFViewerApplication.originalPrint \in {"unset", "libPrint"}

(***************************************************************************)
(* C5: once every load and every page request has settled, and the         *)
(* latest load request was rendered, the viewer holds canvases of the      *)
(* latest request only: nothing rendered from an earlier, overlapped load. *)
(***************************************************************************)
C5_OnlyLatestLoadIsDisplayed ==
    (loads = <<>> /\ pageTasks = <<>> /\ requested \in rendered)
        => \A k \in 1..Len(viewer) : viewer[k].req = requested

(***************************************************************************)
(* C6: the print wrapper invoked with no document loaded reports the       *)
(* failure in a debug envelope, sends no print or save envelope, and       *)
(* leaves the host nothing to print.                                       *)
(***************************************************************************)
C6_PrintWithoutDocumentReportsDebug ==
    (finished.fn = "overridePrint" /\ finished.doc = NoDoc /\ finished.channel # "none")
        => /\ Str("debug") \in PostedCommands
           /\ PostedCommands \cap {Str("save"), Str("print")} = {}

(***************************************************************************)
(* C7: readiness polling is bounded: once a page has seen more than        *)
(* maxAttempts runs that found no viewer, no timer is left to run          *)
(* another one.                                                            *)
(***************************************************************************)
C7_ReadinessPollingIsBounded ==
    page.attempts > maxAttempts => ~page.timer

(***************************************************************************)
(* C8: no ready envelope is sent while PDFViewerApplication is absent or   *)
(* not initialized.                                                        *)
(***************************************************************************)
C8_ReadyOnlyWhenInitialized ==
    \A k \in 1..Len(posted) :
        CommandOf(posted[k].raw) = Str("ready") => posted[k].appReady

(***************************************************************************)
(* C9: when the host has switched the WebView's source to the viewer URL   *)
(* that carries the document (the WebView still shows the previous page),  *)
(* the page loaded from that URL eventually sends a ready envelope, given  *)
(* that the renderer initializes and timers fire.                          *)
(***************************************************************************)
C9_DocumentPageEventuallyReady ==
    (pdfUrl = "document" /\ page.url # "document")
        ~> (page.url = "document" /\ Str("ready") \in PostedCommands)

\* the document page reports ready after a run that found no viewer yet
C9_ReadyAfterRetry ==
    /\ pdfUrl = "document"
    /\ page.url = "document"
    /\ page.attempts > 0
    /\ Str("ready") \in PostedCommands

(***************************************************************************)
(* C10: a raw message that fails deserialization is logged and discarded:  *)
(* the handler warns and does nothing else (no file write, no native       *)
(* print or share, no alert), and nothing it awaits is started.            *)
(***************************************************************************)
C10_UnparsableMessageIsDiscarded ==
    (received # NoRaw /\ JSONparse(received).threw)
        => /\ effects # <<>>
           /\ \A k \in 1..Len(effects) : effects[k].op = "warn"

\* a save envelope cut short arrives while another command is being handled
C10_TruncatedSaveArrives ==
    /\ received = Truncated(JSONstringify([command  |-> Str("save"),
                                           base64   |-> uint8ArrayToBase64(DocBytes("d1")),
                                           filename |-> Str("a.pdf")]))
    /\ JSONparse(received).threw
    /\ handlers # EmptyBag
    /\ DOMAIN files # {}

(***************************************************************************)
(* C11: a message that deserializes and whose command is not save, print   *)
(* or share (ready, debug, clear, an unrecognized command, or no command   *)
(* at all) makes the host write no file, call no native print or share     *)
(* and show no alert: the handler only writes to the console.              *)
(***************************************************************************)
PDFCommands == {Str("save"), Str("print"), Str("share")}

\* data.command of each message the WebView may deliver
CommandTable == [raw \in Raws |-> CommandOf(raw)]

C11_OtherCommandsHaveNoSideEffect ==
    (/\ received # NoRaw
     /\ ~ParseTable[received].threw
     /\ CommandTable[received] \notin PDFCommands)
        => \A k \in 1..Len(effects) : effects[k].op \in {"log", "warn"}

\* an unrecognized command arrives while a PDF action is being handled
C11_UnrecognizedCommandArrives ==
    /\ received = JSONstringify([command |-> Str("zoom")])
    /\ effects = <<Effect("log", Str("Received data from WebView:"))>>
    /\ handlers # EmptyBag

(***************************************************************************)
(* C12: a command whose side effect failed does not stop later commands:   *)
(* after any number of failed save, print or share commands, a valid       *)
(* envelope that arrives is dispatched (its file write is started), and    *)
(* the writes and native calls that then succeed take effect.              *)
(***************************************************************************)
C12_FailureDoesNotBlockLaterCommands ==
    failedBefore =>
        /\ (/\ received # NoRaw
            /\ ~ParseTable[received].threw
            /\ CommandTable[received] \in PDFCommands)
               => \E h \in BagToSet(handlers) :
                     /\ h.pc = "writeFile"
                     /\ Str(h.command) = CommandTable[received]
                     /\ h.path = TargetPath(ParseTable[received].value)
                     /\ Effect("writeFile", h.path) \in Range(effects)
        /\ \A k \in 1..Len(effects) :
               effects[k].op \in {"print", "share"}
                   => /\ effects[k].arg \in DOMAIN files
                      /\ \E h \in BagToSet(handlers) :
                            h.pc = "native" /\ h.path = effects[k].arg

\* after a failed command, a print envelope has been dispatched and its file written
C12_PrintAfterFailure ==
    /\ failedBefore
    /\ Effect("print", <<"CacheDir", "/", "temp_print_", ToString(now), ".pdf">>)
           \in Range(effects)
    /\ DOMAIN files # {}

(***************************************************************************)
(* C13: the order of a print command.  The native print is called only in  *)
(* the step in which the write of its transient file completed, with that  *)
(* file on disk holding the decoded bytes; the deletion of the file is     *)
(* scheduled only in the step in which the native print returned without   *)
(* error; and the file is unlinked only by the timer scheduled before, in  *)
(* a step of its own.                                                      *)
(***************************************************************************)
IsPrintPath(path) == Len(path) >= 3 /\ path[3] = "temp_print_"

Leaves(h) == CopiesIn(h, handlers') < CopiesIn(h, handlers)

C13_PrintStepsInOrder ==
    /\ \A k \in 1..Len(effects') :
          effects'[k].op = "print" =>
              /\ effects'[k].arg \in DOMAIN files'
              /\ \E h \in BagToSet(handlers) :
                    /\ h.command = "print" /\ h.pc = "writeFile"
                    /\ h.path = effects'[k].arg
                    /\ Leaves(h)
                    /\ Base64Decode(h.base64).ok
                    /\ files'[h.path] = Base64Decode(h.base64).bytes
    /\ \A path \in BagToSet(cleanup') :
          (IsPrintPath(path) /\ CopiesIn(path, cleanup') > CopiesIn(path, cleanup)) =>
              /\ effects' = <<>>
              /\ \E h \in BagToSet(handlers) :
                    /\ h.command = "print" /\ h.pc = "native"
                    /\ h.path = path
                    /\ Leaves(h)
    /\ \A k \in 1..Len(effects') :
          (effects'[k].op = "unlink" /\ IsPrintPath(effects'[k].arg)) =>
              /\ CopiesIn(effects'[k].arg, cleanup') < CopiesIn(effects'[k].arg, cleanup)
              /\ handlers' = handlers

C14_EveryTransientFileIsCleanedUp ==
    [][\A h \in BagToSet(handlers) :
          (h.pc = "native" /\ Leaves(h))
              => CopiesIn(h.path, cleanup') > CopiesIn(h.path, cleanup)]_vars

(***************************************************************************)
(* C15: a scheduled deletion that fails is caught and ignored: in the step *)
(* of the cleanup timer, whether the unlink succeeded or was rejected,     *)
(* there is no alert and no error, at most the console line of the print   *)
(* case's rejection handler.                                               *)
(***************************************************************************)
C15_FailedDeletionIsSilent ==
    (\E k \in 1..Len(effects) : effects[k].op = "unlink")
        => \A j \in 1..Len(effects) : effects[j].op \in {"unlink", "log"}

\* the unlink of a print file was rejected and the file is still on disk
C15_DeletionFailed ==
    /\ Len(effects) = 2
    /\ effects[1].op = "unlink"
    /\ effects[1].arg \in DOMAIN files
    /\ effects[2] = Effect("log", Str("Could not delete temp print file"))

(***************************************************************************)
(* C16: save is idempotent under retry.  A save envelope is dispatched to  *)
(* the path downloads/filename with the filename as sent; and every save   *)
(* that completes leaves the store as the first one did: that file holds   *)
(* exactly the decoded bytes and no other file changes, so a save that     *)
(* finds its own earlier result leaves the store unchanged.                *)
(***************************************************************************)
C16_SaveStep ==
    /\ (/\ received' # NoRaw
        /\ ~ParseTable[received'].threw
        /\ CommandTable[received'] = Str("save"))
           => LET data == ParseTable[received'].value
              IN  \E h \in BagToSet(handlers') :
                     /\ h.command = "save" /\ h.pc = "writeFile"
                     /\ CopiesIn(h, handlers') > CopiesIn(h, handlers)
                     /\ h.path = <<"DownloadDir", "/">> \o Template(data, "filename")
                     /\ h.base64 = Template(data, "base64")
    /\ \A h \in BagToSet(handlers) :
          (h.command = "save" /\ Leaves(h) /\ effects' = <<SavedAlert(h.path)>>)
              => LET bytes == Base64Decode(h.base64).bytes
                 IN  /\ DOMAIN files' = DOMAIN files \cup {h.path}
                     /\ files'[h.path] = bytes
                     /\ \A f \in DOMAIN files \ {h.path} : files'[f] = files[f]
                     /\ (h.path \in DOMAIN files /\ files[h.path] = bytes)
                            => files' = files

C16_SaveIsIdempotent == [][C16_SaveStep]_vars

\* one save of an envelope has completed and the same envelope is being saved again
C16_SavedAndSavingAgain ==
    \E h \in BagToSet(handlers) :
        /\ h.command = "save" /\ h.pc = "writeFile"
        /\ effects = <<SavedAlert(h.path)>>
        /\ h.path \in DOMAIN files
        /\ Base64Decode(h.base64).ok
        /\ files[h.path] = Base64Decode(h.base64).bytes

(***************************************************************************)
(* C17: for every command of the outbound vocabulary (ready, save, print,  *)
(* share, debug) and every payload, the envelope serialized by the sender  *)
(* and deserialized by the receiver has the same command and a payload     *)
(* equal to the original, field by field.                                  *)
(***************************************************************************)
C17_EnvelopeRoundTrips ==
    (codec.kind = "envelope" /\ codec.stage = "received")
        => /\ ~codec.output.threw
           /\ codec.output.kind = "object"
           /\ DOMAIN codec.output.value = DOMAIN codec.input
           /\ codec.output.value["command"] = codec.input["command"]
           /\ \A field \in DOMAIN codec.input :
                 codec.output.value[field] = codec.input[field]

\* a save envelope whose file name holds a quote and a backslash came through
C17_QuotedFilenameReceived ==
    /\ codec.kind = "envelope"
    /\ codec.stage = "received"
    /\ codec.input["command"] = Str("save")
    /\ codec.input["filename"] = <<"\"", "\\">>
    /\ codec.input["base64"] # <<>>

(***************************************************************************)
(* C18: for buffers of length 0, of length 1 and longer than the chunk     *)
(* size, encoding with uint8ArrayToBase64 and then decoding gives back     *)
(* exactly the bytes; the chunks cover the buffer in order, each at most   *)
(* chunkSize long, with nothing dropped, duplicated or reordered.          *)
(***************************************************************************)
C18_BufferRoundTrips ==
    (codec.kind = "buffer" /\ codec.stage = "decoded")
        => /\ ~codec.output.threw
           /\ codec.output.length = codec.input.len
           /\ codec.output.differs = 0
           /\ LET uint8Array == Bytes(codec.input.len, codec.input.seed)
                  chunks     == Chunks(uint8Array, 0)
              IN  /\ Join(chunks) = uint8Array
                  /\ \A k \in 1..Len(chunks) :
                        /\ Len(chunks[k]) <= chunkSize
                        /\ k < Len(chunks) => Len(chunks[k]) = chunkSize

\* a buffer longer than one chunk, not a whole number of triples, has been read back
C18_LongBufferDecoded ==
    /\ codec.kind = "buffer"
    /\ codec.stage = "decoded"
    /\ codec.input.len > chunkSize
    /\ codec.input.len % 3 # 0
    /\ codec.output.length = codec.input.len
    /\ codec.output.differs = 0

(***************************************************************************)
(* C19: extraction prefers saveDocument over getData and falls back: the   *)
(* first strategy tried is the first one the document offers, and when a   *)
(* strategy fails (its promise rejects, or what it gives is not a byte     *)
(* buffer) while the document offers a later one, the later one is tried   *)
(* before the extraction fails.                                            *)
(***************************************************************************)
StrategyOrder == <<"saveDocument", "getData", "transport">>

\* the strategies of the order the document offers, in order
Offered(doc) == SelectSeq(StrategyOrder, LAMBDA m : m \in DocApi(doc))

C19_FailedStrategyFallsBack ==
    (finished.fn # "none" /\ finished.doc # NoDoc /\ Offered(finished.doc) # <<>>)
        => /\ finished.tried # <<>>
           /\ finished.tried[1] = Offered(finished.doc)[1]
           /\ (finished.outcome \in {"invalid", "rejected"}
                  /\ Len(Offered(finished.doc)) >= 2)
                 => Len(finished.tried) >= 2

(***************************************************************************)
(* C20: the filename of a save or print envelope is the title of the       *)
(* document's metadata if there is one (as it is, or with the .pdf         *)
(* extension), otherwise the last path segment of the source URL,          *)
(* otherwise document.pdf.                                                 *)
(***************************************************************************)
ExpectedFilenames(doc) ==
    IF DocTitle(doc) # "" THEN {Str(DocTitle(doc)), <<DocTitle(doc), ".pdf">>}
    ELSE IF DocUrl(doc) # <<>> THEN {Str(DocUrl(doc)[Len(DocUrl(doc))])}
    ELSE {Str("document.pdf")}

C20_FilenameFromTitleThenUrl ==
    \A k \in 1..Len(posted) :
        LET data == JSONparse(posted[k].raw)
        IN  (/\ finished.doc # NoDoc
             /\ data.kind = "object"
             /\ "command" \in DOMAIN data.value
             /\ data.value["command"] \in {Str("save"), Str("print")})
                => /\ "filename" \in DOMAIN data.value
                   /\ data.value["filename"] \in ExpectedFilenames(finished.doc)

(***************************************************************************)
(* C21: every envelope the host posts to the embedded content carries a    *)
(* command of the vocabulary documented to pass the boundary's filter      *)
(* (test, hello, ping, info, data, ready); the host posts no other command.*)
(***************************************************************************)
\* ALLOWED COMMANDS: 'test', 'hello', 'ping', 'info', 'data', 'ready'
AllowedCommands == {Str("test"), Str("hello"), Str("ping"), Str("info"), Str("data"), Str("ready")}

C21_HostPostsOnlyAllowedCommands ==
    sentToWebView # NoRaw => CommandOf(sentToWebView) \in AllowedCommands

(***************************************************************************)
(* C22: a save or print envelope that reaches the host after the host has  *)
(* posted clear and the screen has lost focus is a no-op: the step that    *)
(* handles it writes no file, calls no native operation, raises no alert.  *)
(***************************************************************************)
C22_LateCommandAfterClearIsNoOp ==
    (/\ sentToWebView = ClearMessage
     /\ ~screen.focused
     /\ received # NoRaw
     /\ CommandTable[received] \in {Str("save"), Str("print")})
        => \A k \in 1..Len(effects) : effects[k].op \in {"log", "warn"}

(***************************************************************************)
(* C23: during one mount the WebView's source is switched to the document  *)
(* URL at most once, however many onLoadEnd events arrive: the source      *)
(* changes only in a step that finds the guard unset and sets it, and once *)
(* the guard is set it stays set and the source stays as it is.            *)
(***************************************************************************)
C23_SwitchStep ==
    /\ pdfUrl' # pdfUrl => (~pdfSent /\ pdfSent' /\ pdfUrl = "blank" /\ pdfUrl' = "document")
    /\ pdfSent => (pdfSent' /\ pdfUrl' = pdfUrl)

C23_DocumentPushedOncePerMount == [][C23_SwitchStep]_vars

\* the load end caused by the source switch itself has been handled
C23_SecondLoadEndHandled ==
    /\ pdfSent
    /\ pdfUrl = "document"
    /\ page.url = "document"
    /\ page.loaded
    /\ ~loadEnd

(***************************************************************************)
(* C24: once the overrides are installed, every toolbar control present in *)
(* the page (download, print, secondaryDownload, secondaryPrint) has a     *)
(* capturing click listener that calls the wrapper of the overridden entry *)
(* point and suppresses the default action and the propagation.            *)
(***************************************************************************)
C24_EveryPresentControlIsCaptured ==
    /\ (page.controls /\ ~page.toolbarTimer) => \A b \in domButtons : b \in page.clickHandler
    /\ (PDFViewerApplication.present /\ PDFViewerApplication.download = "overrideDownload")
          => \A b \in domButtons : listeners[b] > 0

(***************************************************************************)
(* C25: one click on the save (or print) control starts one invocation of  *)
(* the wrapper, hence one save (or print) envelope, however many times     *)
(* setupOverrides ran before the click: with a document open, no step      *)
(* starts more than one wrapper invocation.                                *)
(***************************************************************************)
C25_OneInvocationPerStep ==
    ~NoActiveDocument(PDFViewerApplication) => Len(calls') <= Len(calls) + 1

C25_OneClickOneEnvelope == [][C25_OneInvocationPerStep]_vars

(***************************************************************************)
(* C26: an invocation of overrideDownload / overridePrint ends after at    *)
(* most one extraction attempt and at most one call of the fallback, and   *)
(* the fallback it calls is never the wrapper itself: no invocation is one *)
(* that a wrapper's fallback started.                                      *)
(***************************************************************************)
C26_WrapperEndsWithoutReentry ==
    /\ finished.fn \in {"overrideDownload", "overridePrint"} =>
          (Len(finished.tried) <= 1 /\ finished.fallback # "wrapper")
    /\ \A i \in 1..Len(calls) : calls[i].by # "fallback"

(***************************************************************************)
(* C30: in each invocation of the save or print wrapper, transmission and  *)
(* fallback exclude each other: when the envelope was handed to a channel  *)
(* the original entry point is not invoked, and the original is invoked    *)
(* only when no envelope was handed over.                                  *)
(***************************************************************************)
C30_TransmissionExcludesFallback ==
    finished.fn \in {"overrideDownload", "overridePrint"} =>
        /\ posted # <<>> => (finished.fallback = "none" /\ ~finished.rejected)
        /\ (finished.fallback # "none" \/ finished.rejected) => posted = <<>>
        /\ Len(posted) <= 1

\* an invocation has handed its envelope to a channel
C30_EnvelopeTransmitted ==
    /\ finished.fn \in {"overrideDownload", "overridePrint"}
    /\ Len(posted) = 1
    /\ CommandOf(posted[1].raw) = Str(WrapperCommand(finished.fn))

(***************************************************************************)
(* C27: a failed file write or native call of a save, print or share       *)
(* command raises exactly one alert, the failure alert of that command,    *)
(* and leaves the files as they were.  A save raises exactly one alert in  *)
(* total, when its write settles: the success alert if and only if the     *)
(* file was written, the failure alert otherwise, never both.              *)
(***************************************************************************)
Alerts(effs) == SelectSeq(effs, LAMBDA e : e.op = "alert")

Errors(effs) == SelectSeq(effs, LAMBDA e : e.op = "error")

C27_NotificationStep ==
    LET alerts == Alerts(effects')
        errors == Errors(effects')
    IN  /\ Len(alerts) <= 1
        /\ \A h \in BagToSet(handlers) :
              (Leaves(h) /\ Len(errors) > 0) =>
                  /\ Len(errors) = 1
                  /\ Len(alerts) = 1
                  /\ alerts[1] = FailureAlert(h.command)
                  /\ files' = files
        /\ \A h \in BagToSet(handlers) :
              (Leaves(h) /\ h.command = "save") =>
                  /\ Len(alerts) = 1
                  /\ alerts[1] \in {SavedAlert(h.path), FailureAlert("save")}
                  /\ alerts[1] = SavedAlert(h.path) <=>
                         (/\ Len(errors) = 0
                          /\ h.path \in DOMAIN files'
                          /\ files'[h.path] = Base64Decode(h.base64).bytes)
        /\ \A h \in BagToSet(handlers) :
              (Leaves(h) /\ h.command # "save" /\ Len(errors) = 0) => alerts = <<>>

C27_OneNotificationPerOutcome == [][C27_NotificationStep]_vars

\* a print whose file was written and whose native call failed
C27_PrintFailedAfterWrite ==
    /\ effects = <<Effect("error", Str("print")), FailureAlert("print")>>
    /\ \E path \in DOMAIN files : IsPrintPath(path)

(***************************************************************************)
(* C28: the host handles inbound envelopes one at a time: while the        *)
(* handling of a save, print or share envelope is waiting for its file     *)
(* write or its native call, the handling of no other envelope begins.     *)
(***************************************************************************)
C28_DeliveryFindsNoHandlerWaiting == received' # NoRaw => handlers = EmptyBag

C28_EnvelopesHandledOneAtATime == [][C28_DeliveryFindsNoHandlerWaiting]_vars

(***************************************************************************)
(* C29: the transient file of a print or share that is still in progress   *)
(* (its native call has not returned) is left alone by every other         *)
(* operation: no step deletes or changes it, and no other command's write  *)
(* lands on its path.                                                      *)
(***************************************************************************)
C29_FileInUseUntouched ==
    \A g \in BagToSet(handlers) :
        g.pc = "native" =>
            /\ g.path \in DOMAIN files =>
                  (g.path \in DOMAIN files' /\ files'[g.path] = files[g.path])
            /\ ~\E h \in BagToSet(handlers) :
                  /\ h.pc = "writeFile"
                  /\ h.path = g.path
                  /\ Leaves(h)
                  /\ Errors(effects') = <<>>

C29_TransientFilesAreNotShared == [][C29_FileInUseUntouched]_vars

(***************************************************************************)
(* C31: a run of setupOverrides that cannot install (the application       *)
(* object is absent, or neither boundary channel exists) returns false     *)
(* and changes nothing: the entry points, the saved originals and the      *)
(* toolbar listeners stay as they were.  It returns true only in a run     *)
(* that added its listener to every toolbar element present.               *)
(***************************************************************************)
\* the step ran setupOverrides from one of the strategies
SetupRan ==
    \/ strategy1 = "timer" /\ strategy1' = "done"
    \/ strategy2 = "timer" /\ strategy2' # "timer"
    \/ strategy2 = "retry" /\ strategy2' = "done"
    \/ pollInterval.active /\ ~pollInterval'.active /\ ~pollInterval'.gaveUp

CannotInstall ==
    \/ ~PDFViewerApplication.present
    \/ ~ReactNativeWebView /\ ~parentPostMessage

C31_SetupStep ==
    SetupRan =>
        /\ CannotInstall =>
              /\ PDFViewerApplication' = PDFViewerApplication
              /\ listeners' = listeners
              /\ (strategy2 = "timer" /\ strategy2' # "timer") => strategy2' = "retry"
        /\ (strategy2 = "timer" /\ strategy2' = "done") =>
              /\ ~CannotInstall
              /\ \A b \in domButtons : listeners'[b] = listeners[b] + 1

C31_RefusedSetupChangesNothing == [][C31_SetupStep]_vars

\* a run of setupOverrides has returned false
C31_SetupRefused == strategy2 = "retry"

(***************************************************************************)
(* C32: the bytes and the filename of one save or print envelope belong to *)
(* the same document: the filename sent is the filename of the document    *)
(* whose bytes were extracted, also when another document was opened       *)
(* while the wrapper waited for the extraction.                            *)
(***************************************************************************)
C32_BytesAndFilenameOfOneDocument ==
    (finished.fn \in {"overrideDownload", "overridePrint"} /\ finished.sent # "none") =>
        getFilename([pdfDocument |-> finished.fnameDoc])
            = getFilename([pdfDocument |-> finished.doc])

(***************************************************************************)
(* C33: after renderPDF has finished for a document with n pages (one      *)
(* load, every getPage fulfilled), the viewer holds the n canvases in      *)
(* ascending page order, whatever the order in which the getPage promises  *)
(* settled.                                                                *)
(***************************************************************************)
C33_CanvasesInPageOrder ==
    (/\ requested = 1
     /\ rendered = {1}
     /\ loads = <<>>
     /\ pageTasks = <<>>
     /\ Len(viewer) > 0
     /\ Len(viewer) = NumPages(viewer[1].doc))
        => \A k \in 1..Len(viewer) : viewer[k].pageNum = k

(***************************************************************************)
(* C34: the PDFViewer is set up once and reused: however the selections    *)
(* and their FileReader callbacks overlap, at most one EventBus, one       *)
(* PDFLinkService and one PDFViewer are ever created, and every call of    *)
(* setDocument is made on that one instance.                               *)
(***************************************************************************)
C34_OneViewerReused ==
    /\ created.viewer <= 1
    /\ created.eventBus <= 1
    /\ created.linkService <= 1
    /\ pdfViewer = created.viewer
    /\ \A k \in 1..Len(setDocumentCalls) : setDocumentCalls[k] = 1

\* two loads that overlapped have both set their document
C34_SecondLoadReusedViewer ==
    /\ Len(setDocumentCalls) >= 2
    /\ Len(fileLoads) = 2
    /\ \A i \in 1..Len(fileLoads) : fileLoads[i].pc = "firstPage"

(***************************************************************************)
(* C35: every load started by selecting a file ends with a success or an   *)
(* error message, also when getDocument rejects: once no load is in flight *)
(* any more, the status is not a loading message.                          *)
(***************************************************************************)
C35_NoLoadLeftInLoadingState ==
    fileLoads = <<>> => messageArea.type # "loading"

(***************************************************************************)
(* C36: sendToReactNative never throws, makes at most one postMessage      *)
(* call, posts to the parent only when window.ReactNativeWebView is not    *)
(* there, and returns true exactly when a postMessage call completed       *)
(* without raising, which is exactly when the message reached a channel.   *)
(***************************************************************************)
C36_SendReturnsWhatHappened ==
    (codec.kind = "send" /\ codec.stage = "returned") =>
        LET r == codec.output
        IN  /\ ~r.threw
            /\ r.attempts <= 1
            /\ Len(posted) <= r.attempts
            /\ \A k \in 1..Len(posted) :
                  /\ posted[k].via = "parent" => ~ReactNativeWebView
                  /\ posted[k].via = "rn" => ReactNativeWebView
                  /\ posted[k].raw = JSONstringify(codec.input)
            /\ r.returned <=> (r.attempts = 1 /\ ~r.raised)
            /\ r.returned <=> Len(posted) = 1
            /\ (~ReactNativeWebView /\ ~parentPostMessage) => r.attempts = 0

\* the call on ReactNativeWebView raised although the parent was there too
C36_RaisedOnWebViewChannel ==
    /\ codec.kind = "send"
    /\ codec.stage = "returned"
    /\ ReactNativeWebView
    /\ parentPostMessage
    /\ codec.output.raised
    /\ ~codec.output.returned

====
